---- MODULE Spec2Model ----
(***************************************************************************)
(* Model of the cast orchestrator of react-native-dlna-player, translated  *)
(* from android/src/main/java/byron/dlna/RNByronDLNAModuleEnhanced.java.   *)
(*                                                                         *)
(* One castToDevice call is followed from its invocation to every promise  *)
(* settlement it causes.  Each run of castToDeviceWithRetry is an attempt  *)
(* instance; an instance is named by the path of retryOrFail callers that  *)
(* led to it (<<>> is the first attempt), so its attempt number is the     *)
(* length of the path plus one.  The closure state of an instance is its   *)
(* operationCompleted flag, its deadline timer and the dispatcher request  *)
(* it has in flight.  Handlers (timer runnables, dispatcher callbacks) are *)
(* atomic steps; the dispatcher and the timers are free to answer in any   *)
(* order, late, or never.                                                  *)
(***************************************************************************)
EXTENDS Integers, Sequences, FiniteSets, TLC

(***************************************************************************)
(* Program constants                                                       *)
(***************************************************************************)
MAX_RETRIES == 3

INITIAL_RETRY_DELAY == 1000

CAST_TIMEOUT_MS == 30000

(***************************************************************************)
(* Strings are sequences of one-character strings.  A null reference is    *)
(* the sentinel NullString, which no character sequence equals.            *)
(***************************************************************************)
NullString == <<"null">>

HttpPrefix == <<"h", "t", "t", "p", ":", "/", "/">>

HttpsPrefix == <<"h", "t", "t", "p", "s", ":", "/", "/">>

startsWith(s, prefix) ==
    /\ Len(s) >= Len(prefix)
    /\ SubSeq(s, 1, Len(prefix)) = prefix

(***************************************************************************)
(* Inputs of the model                                                     *)
(***************************************************************************)
UrlHttp == HttpPrefix \o <<"a", ".", "m", "p", "4">>

UrlFtp == <<"f", "t", "p", ":", "/", "/", "a">>

UrlNoScheme == <<"h", "t", "t", "p">>

UrlUpperCase == <<"H", "T", "T", "P", ":", "/", "/", "a">>

Urls == {NullString, <<>>, UrlFtp, UrlNoScheme, UrlUpperCase, UrlHttp}

(***************************************************************************)
(* Bounds on the environment                                               *)
(***************************************************************************)
\* Faults the environment may inject into one run: an attempt whose dispatcher
\* callbacks run after its deadline fired, or a controlPoint.execute that raises
\* instead of dispatching.
MaxFaults == 1

Titles == {<<"T">>}

\* "tv" exposes the AVTransport service, "nas" does not.
DeviceIds == {"tv", "nas"}

findService(device) == device = "tv"

(***************************************************************************)
(* Attempt instances                                                       *)
(***************************************************************************)
\* Who called retryOrFail: the attempt's own failure path (a dispatcher failure
\* callback or the catch block) or its deadline handler.
Causes == {"failure", "deadline"}

RECURSIVE Paths(_)
Paths(n) ==
    IF n = 0 THEN {<<>>}
    ELSE LET shorter == Paths(n - 1)
         IN  shorter \cup {Append(p, c) : p \in {q \in shorter : Len(q) = n - 1}, c \in Causes}

Instances == Paths(MAX_RETRIES)

Root == <<>>

attemptNumber(i) == Len(i) + 1

VARIABLES
    binding,            \* bindService has been requested and not yet answered
    serviceRunning,     \* the Android UPnP service (registry, executors) is alive
    upnpService,        \* field upnpService is non-null
    registry,           \* identifiers of the devices the registry knows
    called,             \* castToDevice has been invoked
    args,               \* its arguments
    attempts,           \* the attempt instances started or scheduled so far
    resolves,           \* number of promise.resolve calls
    rejects,            \* number of promise.reject calls
    rejections,         \* the rejections made: code, underlying error, attempts
    outcome,            \* the first settlement, the one the caller observes
    late,               \* the attempts answered after their deadline fired
    thrown,             \* number of times controlPoint.execute has raised
    control,            \* the controlPlayback call: arguments, invocations, promise
    discovery,          \* the discoverDevices call and what its promise received
    job,                \* the helper function under evaluation and its arguments
    result,             \* what the helper function returned
    deviceEvent,        \* the device event most recently emitted to JavaScript
    mounted,            \* example app: the component is mounted, its listeners added
    captured,           \* example app: selectedDevice as the listeners' closure sees it
    devicesState,       \* example app: state devices
    selectedDevice,     \* example app: state selectedDevice
    serviceStarted,     \* example app: state serviceStarted
    lostId,             \* example app: identifier of the last device-lost event handled
    upnpIsRunning,      \* iOS: upnp->IsRunning()
    mediaController,    \* iOS: ctrlPoint and mediaController are non-nil
    renderers,          \* iOS: what ctrlPoint->GetMediaRenderers returns
    discoveredDevices,  \* iOS: keys of the dictionary discoveredDevices
    iosCast,            \* iOS: the castToDevice call and its pending retry blocks
    deadlines,          \* iOS: the deadline blocks waiting on the main queue
    iosPromise,         \* iOS: resolve and reject calls of the cast promise
    iosProgress,        \* iOS: the progress events of the cast call, in order
    iosControl,         \* iOS: the last controlPlayback call and its answer
    iosHistory          \* iOS: the exported methods called since the last closeService

svcVars == <<binding, serviceRunning, upnpService, registry>>

callVars == <<called, args>>

castVars == <<attempts, resolves, rejects, rejections, outcome>>

envVars == <<late, thrown>>

apiVars == <<control, discovery>>

helperVars == <<job, result>>

exampleVars == <<mounted, captured, devicesState, selectedDevice, serviceStarted, lostId>>

iosVars == <<upnpIsRunning, mediaController, renderers, discoveredDevices, iosCast,
             deadlines, iosPromise, iosProgress, iosControl, iosHistory>>

vars == <<binding, serviceRunning, upnpService, registry, called, args,
          attempts, resolves, rejects, rejections, outcome, late, thrown,
          control, discovery, job, result, deviceEvent,
          mounted, captured, devicesState, selectedDevice, serviceStarted, lostId,
          upnpIsRunning, mediaController, renderers, discoveredDevices, iosCast,
          deadlines, iosPromise, iosProgress, iosControl, iosHistory>>

NoArgs == [deviceId |-> "tv", videoUrl |-> NullString, title |-> NullString]

Pending == [kind |-> "pending", code |-> "", error |-> "", attempts |-> 0]

\* The closure of one run of castToDeviceWithRetry, as retryOrFail schedules it:
\*   stage               where the attempt is: "scheduled" (its backoff timer is
\*                       pending), "setsource" / "play" (that dispatcher request
\*                       is in flight), "ended" (no request in flight)
\*   operationCompleted  the AtomicBoolean of the attempt
\*   timeout             timeoutRunnable: "none", "pending", "fired", "removed"
\*   retryDelay          the delay of the backoff timer that starts the attempt
\*   progress            the stages the attempt has emitted, in order
\*   executed            the dispatcher actions the attempt has invoked, in order
NewAttempt(delay) ==
    [stage |-> "scheduled", operationCompleted |-> FALSE, timeout |-> "none",
     retryDelay |-> delay, progress |-> <<>>, executed |-> <<>>]

NoControl ==
    [called |-> FALSE, deviceId |-> "", action |-> <<>>, stage |-> "idle",
     lookups |-> 0, executed |-> <<>>, resolves |-> 0, rejects |-> 0,
     outcome |-> [kind |-> "pending", code |-> ""]]

NoDiscovery == [called |-> FALSE, kind |-> "pending", code |-> "", devices |-> {}]

NoEvent == [name |-> "none"]

NoJob == [op |-> "none"]

NoResult == [op |-> "none"]

\* null in the place of a device object
NoDevice == [id |-> "null", name |-> <<>>, manufacturer |-> <<>>]

NoCast == [deviceId |-> "none", scheduled |-> {}]

NoPromise == [resolves |-> 0, rejects |-> 0, codes |-> {}]

NoIosControl == [deviceId |-> "none", action |-> <<>>, code |-> "none"]

NoHistory == [calls |-> "none", retried |-> FALSE]

\* The example component before it is mounted and the iOS module after init.
InitOthers ==
    /\ mounted = FALSE
    /\ captured = NoDevice
    /\ devicesState = <<>>
    /\ selectedDevice = NoDevice
    /\ serviceStarted = FALSE
    /\ lostId = "none"
    /\ upnpIsRunning = FALSE
    /\ mediaController = FALSE
    /\ renderers = {}
    /\ discoveredDevices = {}
    /\ iosCast = NoCast
    /\ deadlines = {}
    /\ iosPromise = NoPromise
    /\ iosProgress = <<>>
    /\ iosControl = NoIosControl
    /\ iosHistory = NoHistory

\* The module after construction, no helper function under evaluation.
Init ==
    /\ job = NoJob
    /\ result = NoResult
    /\ deviceEvent = NoEvent
    /\ binding = FALSE
    /\ serviceRunning = FALSE
    /\ upnpService = FALSE
    /\ registry = {}
    /\ called = FALSE
    /\ args = NoArgs
    /\ attempts = <<>>
    /\ resolves = 0
    /\ rejects = 0
    /\ rejections = {}
    /\ outcome = Pending
    /\ late = {}
    /\ thrown = 0
    /\ control = NoControl
    /\ discovery = NoDiscovery
    /\ InitOthers

(***************************************************************************)
(* The orchestrator's state as one value, so that the steps of a handler   *)
(* compose in the order the code runs them.                                *)
(***************************************************************************)
Cur ==
    [attempts |-> attempts, resolves |-> resolves, rejects |-> rejects,
     rejections |-> rejections, outcome |-> outcome]

Commit(s) ==
    /\ attempts' = s.attempts
    /\ resolves' = s.resolves
    /\ rejects' = s.rejects
    /\ rejections' = s.rejections
    /\ outcome' = s.outcome

\* promise.reject(code, message): message is the underlying error and,
\* for CAST_FAILED, the attempt count.
promiseReject(s, code, error, count) ==
    LET r == [kind |-> "rejected", code |-> code, error |-> error, attempts |-> count]
    IN  [s EXCEPT !.rejects = @ + 1,
                  !.rejections = @ \cup {r},
                  !.outcome = IF @.kind = "pending" THEN r ELSE @]

\* promise.resolve(true)
promiseResolve(s) ==
    LET r == [kind |-> "resolved", code |-> "true", error |-> "", attempts |-> 0]
    IN  [s EXCEPT !.resolves = @ + 1,
                  !.outcome = IF @.kind = "pending" THEN r ELSE @]

emitCastProgress(s, i, stageName) ==
    [s EXCEPT !.attempts[i].progress = Append(@, stageName)]

\* Variant: the delay does not grow with the attempt number.
Pow2_NoGrowth(n) == 1

RECURSIVE Pow2(_)
Pow2(n) == IF n <= 0 THEN 1 ELSE 2 * Pow2(n - 1)

\* Variant: the budget test is off by one, a fourth attempt is scheduled.
retryOrFail_OffByOne(s, i, cause, errorMsg) ==
    IF attemptNumber(i) > MAX_RETRIES
    THEN promiseReject(s, "CAST_FAILED", errorMsg, MAX_RETRIES)
    ELSE LET delay == INITIAL_RETRY_DELAY * Pow2(attemptNumber(i) - 1)
         IN  [s EXCEPT !.attempts = (Append(i, cause) :> NewAttempt(delay)) @@ @]

\* Variant: the last failure schedules nothing and rejects nothing.
retryOrFail_NoFinalReject(s, i, cause, errorMsg) ==
    IF attemptNumber(i) >= MAX_RETRIES
    THEN s
    ELSE LET delay == INITIAL_RETRY_DELAY * Pow2(attemptNumber(i) - 1)
         IN  [s EXCEPT !.attempts = (Append(i, cause) :> NewAttempt(delay)) @@ @]

retryOrFail(s, i, cause, errorMsg) ==
    IF attemptNumber(i) >= MAX_RETRIES
    THEN promiseReject(s, "CAST_FAILED", errorMsg, MAX_RETRIES)
    ELSE LET delay == INITIAL_RETRY_DELAY * Pow2(attemptNumber(i) - 1)
         IN  [s EXCEPT !.attempts = (Append(i, cause) :> NewAttempt(delay)) @@ @]

\* Variant: the scheme check is missing.
validateVideoUrl_NoSchemeCheck(url) ==
    ~(url = NullString \/ Len(url) = 0)

validateVideoUrl(url) ==
    /\ ~(url = NullString \/ Len(url) = 0)
    /\ (startsWith(url, HttpPrefix) \/ startsWith(url, HttpsPrefix))

\* Variant: a missing device is handed to retryOrFail.
deviceNotFound_Retried(s, i) ==
    retryOrFail(s, i, "failure", "Device not found")

\* device == null: the call is rejected at once.
deviceNotFound(s, i) ==
    promiseReject(s, "DEVICE_NOT_FOUND", "", 0)

\* Variant: connecting is emitted for the first attempt only.
emitConnecting_FirstAttemptOnly(s, i) ==
    IF attemptNumber(i) = 1 THEN emitCastProgress(s, i, "connecting") ELSE s

emitConnecting(s, i) ==
    emitCastProgress(s, i, "connecting")

\* Variant: a device without AVTransport is handed to retryOrFail.
serviceNotAvailable_Retried(s, i) ==
    retryOrFail(s, i, "failure", "AVTransport not available")

\* avTransportService == null: the call is rejected at once.
serviceNotAvailable(s, i) ==
    promiseReject(s, "SERVICE_NOT_AVAILABLE", "", 0)

\* Variant: a missing service is handed to retryOrFail.
serviceNotStarted_Retried(s, i) ==
    retryOrFail(s, i, "failure", "Service not started")

\* upnpService == null: the call is rejected at once.
serviceNotStarted(s, i) ==
    promiseReject(s, "SERVICE_NOT_STARTED", "", 0)

\* The body of castToDeviceWithRetry up to the dispatch of SetAVTransportURI.
\* executeThrows: controlPoint.execute raises instead of dispatching.
castToDeviceWithRetry(s, i, deviceId, executeThrows) ==
    LET ended == [s EXCEPT !.attempts[i].stage = "ended"]
    IN  IF attemptNumber(i) > MAX_RETRIES
        THEN promiseReject(ended, "MAX_RETRIES_EXCEEDED", "", MAX_RETRIES)
        ELSE IF ~upnpService
        THEN serviceNotStarted(ended, i)
        ELSE IF deviceId \notin registry
        THEN deviceNotFound(ended, i)
        ELSE LET connecting == emitConnecting(ended, i)
             IN  IF ~findService(deviceId)
                 THEN serviceNotAvailable(connecting, i)
                 ELSE LET armed == [connecting EXCEPT !.attempts[i].timeout = "pending"]
                      IN  IF executeThrows
                          THEN retryOrFail(armed, i, "failure", "Network error while casting")
                          ELSE [armed EXCEPT !.attempts[i].stage = "setsource",
                                             !.attempts[i].executed = Append(@, "SetAVTransportURI")]

\* operationCompleted.compareAndSet(false, true) followed, when it wins, by
\* timeoutHandler.removeCallbacks(timeoutRunnable).
claimCompletion(s, i) ==
    [s EXCEPT !.attempts[i].operationCompleted = TRUE,
              !.attempts[i].timeout = IF @ = "pending" THEN "removed" ELSE @]

(***************************************************************************)
(* Service and registry                                                    *)
(***************************************************************************)
startService ==
    /\ ~binding
    /\ ~serviceRunning
    /\ binding' = TRUE
    /\ UNCHANGED <<serviceRunning, upnpService, registry>>
    /\ UNCHANGED callVars
    /\ UNCHANGED castVars
    /\ UNCHANGED envVars
    /\ UNCHANGED apiVars
    /\ UNCHANGED helperVars
    /\ UNCHANGED exampleVars
    /\ UNCHANGED iosVars
    /\ UNCHANGED deviceEvent

onServiceConnected ==
    /\ binding
    /\ binding' = FALSE
    /\ serviceRunning' = TRUE
    /\ upnpService' = TRUE
    /\ UNCHANGED registry
    /\ UNCHANGED callVars
    /\ UNCHANGED castVars
    /\ UNCHANGED envVars
    /\ UNCHANGED apiVars
    /\ UNCHANGED helperVars
    /\ UNCHANGED exampleVars
    /\ UNCHANGED iosVars
    /\ UNCHANGED deviceEvent

\* closeService stops and unbinds the service; it leaves the field upnpService
\* as it is.  The stopped service forgets its devices.
closeService ==
    /\ serviceRunning
    /\ serviceRunning' = FALSE
    /\ registry' = {}
    /\ UNCHANGED <<binding, upnpService>>
    /\ UNCHANGED callVars
    /\ UNCHANGED castVars
    /\ UNCHANGED envVars
    /\ UNCHANGED apiVars
    /\ UNCHANGED helperVars
    /\ UNCHANGED exampleVars
    /\ UNCHANGED iosVars
    /\ UNCHANGED deviceEvent

\* The connection to the service is lost (its process died).
onServiceDisconnected ==
    /\ serviceRunning
    /\ serviceRunning' = FALSE
    /\ upnpService' = FALSE
    /\ registry' = {}
    /\ UNCHANGED binding
    /\ UNCHANGED callVars
    /\ UNCHANGED castVars
    /\ UNCHANGED envVars
    /\ UNCHANGED apiVars
    /\ UNCHANGED helperVars
    /\ UNCHANGED exampleVars
    /\ UNCHANGED iosVars
    /\ UNCHANGED deviceEvent

\* Variant: every device passes for a renderer.
isMediaRenderer_Always(device) == TRUE

isMediaRenderer(device) == findService(device)

\* What the registry knows of a device: "tv" describes its manufacturer but
\* not its model, "nas" neither.
Details ==
    [tv |-> [friendlyName |-> "TV", manufacturer |-> "Samsung", modelName |-> "null",
             type |-> "MediaRenderer"],
     nas |-> [friendlyName |-> "NAS", manufacturer |-> "null", modelName |-> "null",
              type |-> "MediaServer"]]

createDeviceMap(d) ==
    [id |-> d,
     name |-> Details[d].friendlyName,
     manufacturer |-> IF Details[d].manufacturer # "null"
                      THEN Details[d].manufacturer ELSE "Unknown",
     modelName |-> IF Details[d].modelName # "null" THEN Details[d].modelName ELSE "Unknown",
     type |-> Details[d].type]

sendDeviceDiscoveredEvent(d) ==
    [name |-> "dlna-device-found", params |-> createDeviceMap(d)]

sendDeviceRemovedEvent(d) ==
    [name |-> "dlna-device-lost", params |-> [id |-> d]]

\* Variant: every added device is announced.
remoteDeviceAdded_Unfiltered(d) ==
    /\ serviceRunning
    /\ d \notin registry
    /\ registry' = registry \cup {d}
    /\ deviceEvent' = sendDeviceDiscoveredEvent(d)
    /\ UNCHANGED <<binding, serviceRunning, upnpService>>
    /\ UNCHANGED callVars
    /\ UNCHANGED castVars
    /\ UNCHANGED envVars
    /\ UNCHANGED apiVars
    /\ UNCHANGED helperVars
    /\ UNCHANGED exampleVars
    /\ UNCHANGED iosVars

\* The registry learns of a remote device and notifies the listener.
remoteDeviceAdded(d) ==
    /\ serviceRunning
    /\ d \notin registry
    /\ registry' = registry \cup {d}
    /\ deviceEvent' = IF isMediaRenderer(d) THEN sendDeviceDiscoveredEvent(d) ELSE deviceEvent
    /\ UNCHANGED <<binding, serviceRunning, upnpService>>
    /\ UNCHANGED callVars
    /\ UNCHANGED castVars
    /\ UNCHANGED envVars
    /\ UNCHANGED apiVars
    /\ UNCHANGED helperVars
    /\ UNCHANGED exampleVars
    /\ UNCHANGED iosVars

\* The registry drops a remote device and notifies the listener.
remoteDeviceRemoved(d) ==
    /\ serviceRunning
    /\ d \in registry
    /\ registry' = registry \ {d}
    /\ deviceEvent' = sendDeviceRemovedEvent(d)
    /\ UNCHANGED <<binding, serviceRunning, upnpService>>
    /\ UNCHANGED callVars
    /\ UNCHANGED castVars
    /\ UNCHANGED envVars
    /\ UNCHANGED apiVars
    /\ UNCHANGED helperVars
    /\ UNCHANGED exampleVars
    /\ UNCHANGED iosVars

(***************************************************************************)
(* The cast call                                                           *)
(***************************************************************************)
\* The attempt gets as far as controlPoint.execute(SetAVTransportURI).
ReachesExecute(i, deviceId) ==
    /\ attemptNumber(i) <= MAX_RETRIES
    /\ upnpService
    /\ deviceId \in registry
    /\ findService(deviceId)

\* The environment's part of an attempt: whether execute raises.
Dispatch(i, deviceId, executeThrows) ==
    IF executeThrows
    THEN /\ ReachesExecute(i, deviceId)
         /\ Cardinality(late) + thrown < MaxFaults
         /\ thrown' = thrown + 1
    ELSE thrown' = thrown

\* A dispatcher callback of attempt i runs; it is late when the deadline of
\* the attempt has fired.
Answer(i) ==
    IF attempts[i].timeout = "fired"
    THEN /\ (i \in late \/ Cardinality(late) + thrown < MaxFaults)
         /\ late' = late \cup {i}
    ELSE late' = late

castToDevice(deviceId, videoUrl, title) ==
    /\ ~called
    /\ called' = TRUE
    /\ args' = [deviceId |-> deviceId, videoUrl |-> videoUrl, title |-> title]
    /\ IF ~validateVideoUrl(videoUrl)
       THEN /\ Commit(promiseReject(Cur, "INVALID_URL", "", 0))
            /\ thrown' = thrown
       ELSE \E executeThrows \in BOOLEAN :
              /\ Dispatch(Root, deviceId, executeThrows)
              /\ Commit(castToDeviceWithRetry(
                     [Cur EXCEPT !.attempts = Root :> NewAttempt(0)],
                     Root, deviceId, executeThrows))
    /\ UNCHANGED late
    /\ UNCHANGED svcVars
    /\ UNCHANGED apiVars
    /\ UNCHANGED helperVars
    /\ UNCHANGED exampleVars
    /\ UNCHANGED iosVars
    /\ UNCHANGED deviceEvent

\* The backoff timer posted by retryOrFail runs castToDeviceWithRetry.
BackoffFires(i) ==
    /\ attempts[i].stage = "scheduled"
    /\ \E executeThrows \in BOOLEAN :
         /\ Dispatch(i, args.deviceId, executeThrows)
         /\ Commit(castToDeviceWithRetry(Cur, i, args.deviceId, executeThrows))
    /\ UNCHANGED late
    /\ UNCHANGED svcVars
    /\ UNCHANGED apiVars
    /\ UNCHANGED helperVars
    /\ UNCHANGED exampleVars
    /\ UNCHANGED iosVars
    /\ UNCHANGED deviceEvent
    /\ UNCHANGED callVars

\* Variant: the deadline handler only logs.
DeadlineFires_NoRetry(i) ==
    /\ attempts[i].timeout = "pending"
    /\ Commit([Cur EXCEPT !.attempts[i].timeout = "fired"])
    /\ UNCHANGED envVars
    /\ UNCHANGED svcVars
    /\ UNCHANGED apiVars
    /\ UNCHANGED helperVars
    /\ UNCHANGED exampleVars
    /\ UNCHANGED iosVars
    /\ UNCHANGED deviceEvent
    /\ UNCHANGED callVars

\* timeoutRunnable
DeadlineFires(i) ==
    /\ attempts[i].timeout = "pending"
    /\ LET fired == [Cur EXCEPT !.attempts[i].timeout = "fired"]
       IN  IF ~attempts[i].operationCompleted
           THEN Commit(retryOrFail(fired, i, "deadline", "Operation timed out"))
           ELSE Commit(fired)
    /\ UNCHANGED envVars
    /\ UNCHANGED svcVars
    /\ UNCHANGED apiVars
    /\ UNCHANGED helperVars
    /\ UNCHANGED exampleVars
    /\ UNCHANGED iosVars
    /\ UNCHANGED deviceEvent
    /\ UNCHANGED callVars

\* Variant: Play is dispatched without the buffering event.
SetAVTransportURISuccess_NoBuffering(i) ==
    /\ attempts[i].stage = "setsource"
    /\ Answer(i)
    /\ Commit([Cur EXCEPT !.attempts[i].stage = "play",
                          !.attempts[i].executed = Append(@, "Play")])
    /\ UNCHANGED thrown
    /\ UNCHANGED svcVars
    /\ UNCHANGED apiVars
    /\ UNCHANGED helperVars
    /\ UNCHANGED exampleVars
    /\ UNCHANGED iosVars
    /\ UNCHANGED deviceEvent
    /\ UNCHANGED callVars

\* SetAVTransportURI.success
SetAVTransportURISuccess(i) ==
    /\ attempts[i].stage = "setsource"
    /\ Answer(i)
    /\ LET buffering == emitCastProgress(Cur, i, "buffering")
       IN  Commit([buffering EXCEPT !.attempts[i].stage = "play",
                                    !.attempts[i].executed = Append(@, "Play")])
    /\ UNCHANGED thrown
    /\ UNCHANGED svcVars
    /\ UNCHANGED apiVars
    /\ UNCHANGED helperVars
    /\ UNCHANGED exampleVars
    /\ UNCHANGED iosVars
    /\ UNCHANGED deviceEvent
    /\ UNCHANGED callVars

\* SetAVTransportURI.failure
SetAVTransportURIFailure(i) ==
    /\ attempts[i].stage = "setsource"
    /\ Answer(i)
    /\ LET ended == [Cur EXCEPT !.attempts[i].stage = "ended"]
       IN  IF ~attempts[i].operationCompleted
           THEN Commit(retryOrFail(claimCompletion(ended, i), i, "failure",
                                   "Failed to load media"))
           ELSE Commit(ended)
    /\ UNCHANGED thrown
    /\ UNCHANGED svcVars
    /\ UNCHANGED apiVars
    /\ UNCHANGED helperVars
    /\ UNCHANGED exampleVars
    /\ UNCHANGED iosVars
    /\ UNCHANGED deviceEvent
    /\ UNCHANGED callVars

\* Play.success
PlaySuccess(i) ==
    /\ attempts[i].stage = "play"
    /\ Answer(i)
    /\ LET ended == [Cur EXCEPT !.attempts[i].stage = "ended"]
       IN  IF ~attempts[i].operationCompleted
           THEN Commit(promiseResolve(
                    emitCastProgress(claimCompletion(ended, i), i, "playing")))
           ELSE Commit(ended)
    /\ UNCHANGED thrown
    /\ UNCHANGED svcVars
    /\ UNCHANGED apiVars
    /\ UNCHANGED helperVars
    /\ UNCHANGED exampleVars
    /\ UNCHANGED iosVars
    /\ UNCHANGED deviceEvent
    /\ UNCHANGED callVars

\* Variant: a failed Play drops the device from the registry.
PlayFailure_DropsDevice(i) ==
    /\ attempts[i].stage = "play"
    /\ Answer(i)
    /\ LET ended == [Cur EXCEPT !.attempts[i].stage = "ended"]
       IN  IF ~attempts[i].operationCompleted
           THEN Commit(retryOrFail(claimCompletion(ended, i), i, "failure",
                                   "Play command failed"))
           ELSE Commit(ended)
    /\ registry' = registry \ {args.deviceId}
    /\ UNCHANGED <<binding, serviceRunning, upnpService>>
    /\ UNCHANGED thrown
    /\ UNCHANGED apiVars
    /\ UNCHANGED helperVars
    /\ UNCHANGED exampleVars
    /\ UNCHANGED iosVars
    /\ UNCHANGED deviceEvent
    /\ UNCHANGED callVars

\* Play.failure
PlayFailure(i) ==
    /\ attempts[i].stage = "play"
    /\ Answer(i)
    /\ LET ended == [Cur EXCEPT !.attempts[i].stage = "ended"]
       IN  IF ~attempts[i].operationCompleted
           THEN Commit(retryOrFail(claimCompletion(ended, i), i, "failure",
                                   "Play command failed"))
           ELSE Commit(ended)
    /\ UNCHANGED thrown
    /\ UNCHANGED svcVars
    /\ UNCHANGED apiVars
    /\ UNCHANGED helperVars
    /\ UNCHANGED exampleVars
    /\ UNCHANGED iosVars
    /\ UNCHANGED deviceEvent
    /\ UNCHANGED callVars

DeviceAdded == \E d \in DeviceIds : remoteDeviceAdded(d)

DeviceRemoved == \E d \in DeviceIds : remoteDeviceRemoved(d)

Cast == \E d \in DeviceIds, u \in Urls, t \in Titles : castToDevice(d, u, t)

Backoff == \E i \in DOMAIN attempts : BackoffFires(i)

Deadline == \E i \in DOMAIN attempts : DeadlineFires(i)

SetSourceSucceeds == \E i \in DOMAIN attempts : SetAVTransportURISuccess(i)

SetSourceFails == \E i \in DOMAIN attempts : SetAVTransportURIFailure(i)

PlaySucceeds == \E i \in DOMAIN attempts : PlaySuccess(i)

PlayFails == \E i \in DOMAIN attempts : PlayFailure(i)

Next ==
    \/ startService
    \/ onServiceConnected
    \/ closeService
    \/ onServiceDisconnected
    \/ DeviceAdded
    \/ DeviceRemoved
    \/ Cast
    \/ Backoff
    \/ Deadline
    \/ SetSourceSucceeds
    \/ SetSourceFails
    \/ PlaySucceeds
    \/ PlayFails

Spec == Init /\ [][Next]_vars

\* Timers posted on the main-thread handler fire: a pending backoff or
\* deadline timer is eventually run.  Nothing is assumed of the dispatcher.
FairSpec == Spec /\ WF_vars(Backoff) /\ WF_vars(Deadline)

(***************************************************************************)
(* controlPlayback and discoverDevices.                                    *)
(***************************************************************************)
UpperCase ==
    <<"A", "B", "C", "D", "E", "F", "G", "H", "I", "J", "K", "L", "M",
      "N", "O", "P", "Q", "R", "S", "T", "U", "V", "W", "X", "Y", "Z">>

LowerCase ==
    <<"a", "b", "c", "d", "e", "f", "g", "h", "i", "j", "k", "l", "m",
      "n", "o", "p", "q", "r", "s", "t", "u", "v", "w", "x", "y", "z">>

\* Variant: the action is compared as given.
toLowerCase_Identity(str) == str

toLowerCase(str) ==
    [k \in 1..Len(str) |->
        IF \E u \in 1..Len(UpperCase) : UpperCase[u] = str[k]
        THEN LowerCase[CHOOSE u \in 1..Len(UpperCase) : UpperCase[u] = str[k]]
        ELSE str[k]]

ActionPlay == <<"p", "l", "a", "y">>
ActionPause == <<"p", "a", "u", "s", "e">>
ActionStop == <<"s", "t", "o", "p">>
ActionUpperPlay == <<"P", "L", "A", "Y">>
ActionCapitalPause == <<"P", "a", "u", "s", "e">>
ActionRewind == <<"r", "e", "w", "i", "n", "d">>

ControlActions ==
    {ActionPlay, ActionPause, ActionStop, ActionUpperPlay, ActionCapitalPause,
     ActionRewind, NullString}

controlReject(c, code) ==
    [c EXCEPT !.rejects = @ + 1,
              !.stage = "done",
              !.outcome = IF @.kind = "pending"
                          THEN [kind |-> "rejected", code |-> code] ELSE @]

controlResolve(c) ==
    [c EXCEPT !.resolves = @ + 1,
              !.stage = "done",
              !.outcome = IF @.kind = "pending"
                          THEN [kind |-> "resolved", code |-> "true"] ELSE @]

controlExecute(c, invocation) ==
    [c EXCEPT !.executed = Append(@, invocation), !.stage = "inflight"]

\* Variant: the action is validated before the device is looked up.
controlPlayback_ActionFirst(deviceId, action) ==
    /\ ~control.called
    /\ LET c == [control EXCEPT !.called = TRUE, !.deviceId = deviceId, !.action = action]
           found == [c EXCEPT !.lookups = @ + 1]
           lower == toLowerCase(action)
       IN  control' =
             IF ~upnpService THEN controlReject(c, "SERVICE_NOT_STARTED")
             ELSE IF action = NullString THEN controlReject(c, "CONTROL_ERROR")
             ELSE IF lower \notin {ActionPlay, ActionPause, ActionStop}
                  THEN controlReject(c, "INVALID_ACTION")
             ELSE IF deviceId \notin registry THEN controlReject(found, "DEVICE_NOT_FOUND")
             ELSE IF ~findService(deviceId) THEN controlReject(found, "SERVICE_NOT_AVAILABLE")
             ELSE IF lower = ActionPlay THEN controlExecute(found, "Play")
             ELSE IF lower = ActionPause THEN controlExecute(found, "Pause")
             ELSE controlExecute(found, "Stop")
    /\ UNCHANGED discovery
    /\ UNCHANGED helperVars
    /\ UNCHANGED exampleVars
    /\ UNCHANGED iosVars
    /\ UNCHANGED deviceEvent
    /\ UNCHANGED svcVars
    /\ UNCHANGED callVars
    /\ UNCHANGED castVars
    /\ UNCHANGED envVars

\* A null action makes action.toLowerCase() raise, which the catch block
\* turns into CONTROL_ERROR.
controlPlayback(deviceId, action) ==
    /\ ~control.called
    /\ LET c == [control EXCEPT !.called = TRUE, !.deviceId = deviceId, !.action = action]
           found == [c EXCEPT !.lookups = @ + 1]
           lower == toLowerCase(action)
       IN  control' =
             IF ~upnpService THEN controlReject(c, "SERVICE_NOT_STARTED")
             ELSE IF deviceId \notin registry THEN controlReject(found, "DEVICE_NOT_FOUND")
             ELSE IF ~findService(deviceId) THEN controlReject(found, "SERVICE_NOT_AVAILABLE")
             ELSE IF action = NullString THEN controlReject(found, "CONTROL_ERROR")
             ELSE IF lower = ActionPlay THEN controlExecute(found, "Play")
             ELSE IF lower = ActionPause THEN controlExecute(found, "Pause")
             ELSE IF lower = ActionStop THEN controlExecute(found, "Stop")
             ELSE controlReject(found, "INVALID_ACTION")
    /\ UNCHANGED discovery
    /\ UNCHANGED helperVars
    /\ UNCHANGED exampleVars
    /\ UNCHANGED iosVars
    /\ UNCHANGED deviceEvent
    /\ UNCHANGED svcVars
    /\ UNCHANGED callVars
    /\ UNCHANGED castVars
    /\ UNCHANGED envVars

ControlSuccess ==
    /\ control.stage = "inflight"
    /\ control' = controlResolve(control)
    /\ UNCHANGED discovery
    /\ UNCHANGED helperVars
    /\ UNCHANGED exampleVars
    /\ UNCHANGED iosVars
    /\ UNCHANGED deviceEvent
    /\ UNCHANGED svcVars
    /\ UNCHANGED callVars
    /\ UNCHANGED castVars
    /\ UNCHANGED envVars

\* Variant: a failed invocation is issued again.
ControlFailure_Retries ==
    /\ control.stage = "inflight"
    /\ control' = IF Len(control.executed) < MAX_RETRIES
                  THEN controlExecute(control, control.executed[1])
                  ELSE controlReject(control, "ACTION_FAILED")
    /\ UNCHANGED discovery
    /\ UNCHANGED helperVars
    /\ UNCHANGED exampleVars
    /\ UNCHANGED iosVars
    /\ UNCHANGED deviceEvent
    /\ UNCHANGED svcVars
    /\ UNCHANGED callVars
    /\ UNCHANGED castVars
    /\ UNCHANGED envVars

ControlFailure ==
    /\ control.stage = "inflight"
    /\ control' = controlReject(control, "ACTION_FAILED")
    /\ UNCHANGED discovery
    /\ UNCHANGED helperVars
    /\ UNCHANGED exampleVars
    /\ UNCHANGED iosVars
    /\ UNCHANGED deviceEvent
    /\ UNCHANGED svcVars
    /\ UNCHANGED callVars
    /\ UNCHANGED castVars
    /\ UNCHANGED envVars

discoverDevices ==
    /\ ~discovery.called
    /\ discovery' =
         IF ~upnpService
         THEN [called |-> TRUE, kind |-> "rejected", code |-> "SERVICE_NOT_STARTED",
               devices |-> {}]
         ELSE [called |-> TRUE, kind |-> "resolved", code |-> "",
               devices |-> {d \in registry : isMediaRenderer(d)}]
    /\ UNCHANGED control
    /\ UNCHANGED helperVars
    /\ UNCHANGED exampleVars
    /\ UNCHANGED iosVars
    /\ UNCHANGED deviceEvent
    /\ UNCHANGED svcVars
    /\ UNCHANGED callVars
    /\ UNCHANGED castVars
    /\ UNCHANGED envVars

Control == \E d \in DeviceIds, a \in ControlActions : controlPlayback(d, a)

NextApi ==
    \/ startService
    \/ onServiceConnected
    \/ closeService
    \/ onServiceDisconnected
    \/ DeviceAdded
    \/ DeviceRemoved
    \/ Control
    \/ ControlSuccess
    \/ ControlFailure
    \/ discoverDevices

SpecApi == Init /\ [][NextApi]_vars

(***************************************************************************)
(* The helper functions: generateDIDLMetadata with escapeXml, and the       *)
(* JavaScript helper filterDevices.                                        *)
(***************************************************************************)
\* The title argument left out by the JavaScript caller.
Undefined == <<"undefined">>

Video == <<"V", "i", "d", "e", "o">>

Amp == <<"&", "a", "m", "p", ";">>
Lt == <<"&", "l", "t", ";">>
Gt == <<"&", "g", "t", ";">>
Quot == <<"&", "q", "u", "o", "t", ";">>
Apos == <<"&", "a", "p", "o", "s", ";">>

\* String.replace(target, replacement) for a target of one character.
RECURSIVE replace(_, _, _)
replace(text, target, replacement) ==
    IF text = <<>> THEN <<>>
    ELSE (IF Head(text) = target THEN replacement ELSE <<Head(text)>>)
             \o replace(Tail(text), target, replacement)

\* Variant: the apostrophe is left as it is.
escapeXml_NoApos(text) ==
    IF text = NullString THEN <<>>
    ELSE replace(replace(replace(replace(text, "&", Amp), "<", Lt), ">", Gt), "\"", Quot)

escapeXml(text) ==
    IF text = NullString THEN <<>>
    ELSE replace(replace(replace(replace(replace(text, "&", Amp), "<", Lt), ">", Gt),
                         "\"", Quot), "'", Apos)

endsWith(str, suffix) ==
    /\ Len(suffix) <= Len(str)
    /\ SubSeq(str, Len(str) - Len(suffix) + 1, Len(str)) = suffix

contains(str, part) ==
    \E k \in 0..(Len(str) - Len(part)) : SubSeq(str, k + 1, k + Len(part)) = part

DotM3u8 == <<".", "m", "3", "u", "8">>
DotM3u8Query == <<".", "m", "3", "u", "8", "?">>
DotMp4 == <<".", "m", "p", "4">>

\* Variant: the .mp4 suffix is tested first.
protocolInfo_Mp4First(url) ==
    IF endsWith(url, DotMp4) THEN "http-get:*:video/mp4:*"
    ELSE IF endsWith(url, DotM3u8) \/ contains(url, DotM3u8Query)
    THEN "http-get:*:application/vnd.apple.mpegurl:*"
    ELSE "http-get:*:video/*:*"

protocolInfo(url) ==
    IF endsWith(url, DotM3u8) \/ contains(url, DotM3u8Query)
    THEN "http-get:*:application/vnd.apple.mpegurl:*"
    ELSE IF endsWith(url, DotMp4) THEN "http-get:*:video/mp4:*"
    ELSE "http-get:*:video/*:*"

\* The document, by the three places the fixed text leaves open.
generateDIDLMetadata(url, title) ==
    [op |-> "metadata",
     dcTitle |-> escapeXml(title),
     protocolInfo |-> protocolInfo(url),
     res |-> escapeXml(url)]

\* castToDevice of index-enhanced.js: title = 'Video' when left out.
defaultTitle(title) == IF title = Undefined THEN Video ELSE title

\* Variant: the title is passed on as it is.
safeTitle_Unchecked(title) == title

\* title != null ? title : "Video"
safeTitle(title) == IF title # NullString THEN title ELSE Video

\* JavaScript truthiness of an optional string.
truthy(str) == str # Undefined /\ str # NullString /\ str # <<>>

includes(str, part) == contains(str, part)

\* Variant: one matching criterion is enough.
filterDevices_AnyCriterion(devices, filter) ==
    LET keep(device) ==
          \/ ~truthy(filter.manufacturer) /\ ~truthy(filter.name)
          \/ /\ truthy(filter.manufacturer)
             /\ includes(toLowerCase(device.manufacturer), toLowerCase(filter.manufacturer))
          \/ /\ truthy(filter.name)
             /\ includes(toLowerCase(device.name), toLowerCase(filter.name))
    IN  SelectSeq(devices, keep)

filterDevices(devices, filter) ==
    LET keep(device) ==
          /\ truthy(filter.manufacturer)
                => includes(toLowerCase(device.manufacturer), toLowerCase(filter.manufacturer))
          /\ truthy(filter.name)
                => includes(toLowerCase(device.name), toLowerCase(filter.name))
    IN  SelectSeq(devices, keep)

\* Bounds of the helper inputs.
MaxTextLen == 2
MaxDevices == 2

TextChars == {"&", "<", ">", "\"", "'", "a"}

RECURSIVE Texts(_)
Texts(n) ==
    IF n = 0 THEN {<<>>}
    ELSE Texts(n - 1) \cup {Append(t, c) : t \in Texts(n - 1), c \in TextChars}

UrlTails ==
    {<<"a", ".", "m", "p", "4">>,
     <<"a", ".", "m", "p", "4", "?", "t", "=", "x">>,
     <<"a", ".", "m", "3", "u", "8">>,
     <<"a", ".", "m", "3", "u", "8", "?", "x", "=", ".", "m", "p", "4">>,
     <<"a", ".", "m", "3", "u", "8", "/", "b", ".", "m", "p", "4">>,
     <<"a", ".", "m", "k", "v">>}

MetadataUrls ==
    {prefix \o tail : prefix \in {HttpPrefix, HttpsPrefix}, tail \in UrlTails \cup Texts(MaxTextLen)}

MetadataTitles == Texts(MaxTextLen) \cup {NullString, Undefined, <<"T">>}

Samsung == <<"S", "a", "m">>
Sony == <<"S", "o", "n", "y">>

DevicePool ==
    {[name |-> <<"T", "V">>, manufacturer |-> Samsung],
     [name |-> <<"t", "v", "2">>, manufacturer |-> Sony],
     [name |-> <<"B", "o", "x">>, manufacturer |-> Samsung]}

RECURSIVE DeviceLists(_)
DeviceLists(n) ==
    IF n = 0 THEN {<<>>}
    ELSE DeviceLists(n - 1) \cup {Append(l, d) : l \in DeviceLists(n - 1), d \in DevicePool}

Filters ==
    [manufacturer : {Undefined, <<>>, <<"s", "a">>, <<"S", "O">>, <<"x">>},
     name : {Undefined, <<>>, <<"t", "v">>, <<"V">>, <<"o">>}]

Jobs ==
    {[op |-> "metadata", url |-> u, title |-> t] : u \in MetadataUrls, t \in MetadataTitles}
        \cup {[op |-> "filter", devices |-> l, filter |-> f] :
                 l \in DeviceLists(MaxDevices), f \in Filters}

\* A helper function is about to be evaluated on some arguments.
InitHelpers ==
    /\ job \in Jobs
    /\ result = NoResult
    /\ deviceEvent = NoEvent
    /\ binding = FALSE
    /\ serviceRunning = FALSE
    /\ upnpService = FALSE
    /\ registry = {}
    /\ called = FALSE
    /\ args = NoArgs
    /\ attempts = <<>>
    /\ resolves = 0
    /\ rejects = 0
    /\ rejections = {}
    /\ outcome = Pending
    /\ late = {}
    /\ thrown = 0
    /\ control = NoControl
    /\ discovery = NoDiscovery
    /\ InitOthers

\* The metadata of a cast: lines 276-277 with the default of the JavaScript
\* wrapper.
EncodeMetadata ==
    /\ job.op = "metadata"
    /\ result = NoResult
    /\ result' = generateDIDLMetadata(job.url, safeTitle(defaultTitle(job.title)))
    /\ UNCHANGED job
    /\ UNCHANGED exampleVars
    /\ UNCHANGED iosVars
    /\ UNCHANGED svcVars
    /\ UNCHANGED callVars
    /\ UNCHANGED castVars
    /\ UNCHANGED envVars
    /\ UNCHANGED apiVars
    /\ UNCHANGED deviceEvent

FilterDevices ==
    /\ job.op = "filter"
    /\ result = NoResult
    /\ result' = [op |-> "filter", devices |-> filterDevices(job.devices, job.filter)]
    /\ UNCHANGED job
    /\ UNCHANGED exampleVars
    /\ UNCHANGED iosVars
    /\ UNCHANGED svcVars
    /\ UNCHANGED callVars
    /\ UNCHANGED castVars
    /\ UNCHANGED envVars
    /\ UNCHANGED apiVars
    /\ UNCHANGED deviceEvent

NextHelpers ==
    \/ EncodeMetadata
    \/ FilterDevices

SpecHelpers == InitHelpers /\ [][NextHelpers]_vars

(***************************************************************************)
(* The example application: component CastingExample                       *)
(***************************************************************************)
androidVars ==
    <<svcVars, callVars, castVars, envVars, apiVars, helperVars, deviceEvent>>

SamsungLower == <<"s", "a", "m", "s", "u", "n", "g">>

\* The devices the native module may report to the application.
ExampleDevices ==
    {[id |-> "tv", name |-> <<"T", "V">>,
      manufacturer |-> <<"S", "a", "m", "s", "u", "n", "g">>],
     [id |-> "box", name |-> <<"B", "o", "x">>, manufacturer |-> Sony],
     [id |-> "amp", name |-> <<"A", "m", "p">>, manufacturer |-> Sony]}

ExampleIds == {d.id : d \in ExampleDevices}

\* The lists discoverDevices may resolve with.
RECURSIVE DistinctLists(_)
DistinctLists(S) ==
    {<<>>} \cup UNION {{<<d>> \o l : l \in DistinctLists(S \ {d})} : d \in S}

findSamsungTV(list) ==
    LET samsung(d) ==
          \/ includes(toLowerCase(d.name), SamsungLower)
          \/ includes(toLowerCase(d.manufacturer), SamsungLower)
        found == SelectSeq(list, samsung)
    IN  IF found = <<>> THEN NoDevice ELSE found[1]

\* The effect of the first render: it starts the service and adds the
\* listeners, whose closure holds the selectedDevice of that render.
Mount ==
    /\ ~mounted
    /\ mounted' = TRUE
    /\ captured' = selectedDevice
    /\ serviceStarted' = TRUE
    /\ lostId' = "none"
    /\ UNCHANGED <<devicesState, selectedDevice>>
    /\ UNCHANGED androidVars
    /\ UNCHANGED iosVars

\* The cleanup of the effect; the state of the component goes with it.
Unmount ==
    /\ mounted
    /\ mounted' = FALSE
    /\ captured' = NoDevice
    /\ devicesState' = <<>>
    /\ selectedDevice' = NoDevice
    /\ serviceStarted' = FALSE
    /\ lostId' = "none"
    /\ UNCHANGED androidVars
    /\ UNCHANGED iosVars

deviceFoundListener(device) ==
    /\ mounted
    /\ devicesState' = IF \E k \in 1..Len(devicesState) : devicesState[k].id = device.id
                       THEN devicesState
                       ELSE Append(devicesState, device)
    /\ lostId' = "none"
    /\ UNCHANGED <<mounted, captured, selectedDevice, serviceStarted>>
    /\ UNCHANGED androidVars
    /\ UNCHANGED iosVars

\* selectedDevice in the listener is the variable of the render the effect
\* ran in.
deviceLostListener(id) ==
    /\ mounted
    /\ lostId' = id
    /\ LET other(d) == d.id # id
       IN  devicesState' = SelectSeq(devicesState, other)
    /\ selectedDevice' = IF captured.id = id THEN NoDevice ELSE selectedDevice
    /\ UNCHANGED <<mounted, captured, serviceStarted>>
    /\ UNCHANGED androidVars
    /\ UNCHANGED iosVars

\* onPress of a device card
onPress(item) ==
    /\ mounted
    /\ \E k \in 1..Len(devicesState) : devicesState[k] = item
    /\ selectedDevice' = item
    /\ lostId' = "none"
    /\ UNCHANGED <<mounted, captured, devicesState, serviceStarted>>
    /\ UNCHANGED androidVars
    /\ UNCHANGED iosVars

\* handleDiscoverDevices, from the discover button, once discoverDevices has
\* resolved with the list discovered.
handleDiscoverDevices(discovered) ==
    /\ mounted
    /\ serviceStarted
    /\ devicesState' = discovered
    /\ selectedDevice' = IF discovered # <<>> /\ findSamsungTV(discovered) # NoDevice
                         THEN findSamsungTV(discovered)
                         ELSE selectedDevice
    /\ lostId' = "none"
    /\ UNCHANGED <<mounted, captured, serviceStarted>>
    /\ UNCHANGED androidVars
    /\ UNCHANGED iosVars

DeviceFound == \E device \in ExampleDevices : deviceFoundListener(device)

DeviceLost == \E id \in ExampleIds : deviceLostListener(id)

Press == \E item \in ExampleDevices : onPress(item)

Discover == \E discovered \in DistinctLists(ExampleDevices) : handleDiscoverDevices(discovered)

NextExample ==
    \/ Mount
    \/ Unmount
    \/ DeviceFound
    \/ DeviceLost
    \/ Press
    \/ Discover

SpecExample == Init /\ [][NextExample]_vars

(***************************************************************************)
(* The iOS module: RNByronDLNAEnhanced.mm.  Its exported methods and the   *)
(* blocks it dispatches all run on the main queue, one after the other,    *)
(* and SetAVTransportURI and Play return their result to the caller.       *)
(***************************************************************************)
\* The history of exported calls:
\*   calls    "closed" after closeService, "restarted" after the startService
\*            that follows it, "controlled" after controlPlayback calls
\*            following that; "none" once discoverDevices or castToDevice is
\*            called
\*   retried  a retry block of castToDevice has run since the last closeService
IosCur ==
    [cast |-> iosCast, deadlines |-> deadlines, promise |-> iosPromise,
     progress |-> iosProgress, discoveredDevices |-> discoveredDevices]

IosCommit(s) ==
    /\ iosCast' = s.cast
    /\ deadlines' = s.deadlines
    /\ iosPromise' = s.promise
    /\ iosProgress' = s.progress
    /\ discoveredDevices' = s.discoveredDevices

iosReject(s, code) ==
    [s EXCEPT !.promise.rejects = @ + 1, !.promise.codes = @ \cup {code}]

iosResolve(s) ==
    [s EXCEPT !.promise.resolves = @ + 1]

iosEmitCastProgress(s, stageName) ==
    [s EXCEPT !.progress = Append(@, stageName)]

iosValidateVideoUrl(url) ==
    /\ ~(url = NullString \/ Len(url) = 0)
    /\ (startsWith(url, HttpPrefix) \/ startsWith(url, HttpsPrefix))

iosRetryOrFail(s, n) ==
    IF n >= MAX_RETRIES
    THEN iosReject(s, "CAST_FAILED")
    ELSE LET delay == INITIAL_RETRY_DELAY * Pow2(n - 1)
         IN  [s EXCEPT !.cast.scheduled =
                           @ \cup {[attemptNumber |-> n + 1, delay |-> delay]}]

\* Variant: a failed Play leaves operationCompleted unset.
iosOperationCompleted_UnsetOnPlayFailure(setSourceOk, playOk) ==
    IF ~setSourceOk THEN TRUE
    ELSE IF ~playOk THEN FALSE
    ELSE TRUE

\* The value of operationCompleted when castToDeviceWithRetry returns: the
\* three ways out of the method after dispatch_after each assign YES.
iosOperationCompleted(setSourceOk, playOk) ==
    IF ~setSourceOk THEN TRUE
    ELSE IF ~playOk THEN TRUE
    ELSE TRUE

\* One run of castToDeviceWithRetry; setSourceOk and playOk are the results
\* of mediaController->SetAVTransportURI and mediaController->Play.
iosCastToDeviceWithRetry(s, n, deviceId, setSourceOk, playOk) ==
    IF n > MAX_RETRIES
    THEN iosReject(s, "MAX_RETRIES_EXCEEDED")
    ELSE IF ~upnpIsRunning
    THEN iosReject(s, "SERVICE_NOT_STARTED")
    ELSE IF ~mediaController
    THEN iosReject(s, "CONTROLLER_NOT_INITIALIZED")
    ELSE IF deviceId \notin s.discoveredDevices /\ deviceId \notin renderers
    THEN iosReject(s, "DEVICE_NOT_FOUND")
    ELSE LET cached == [s EXCEPT !.discoveredDevices = @ \cup {deviceId}]
             connecting == iosEmitCastProgress(cached, "connecting")
             block == [attemptNumber |-> n,
                       operationCompleted |-> iosOperationCompleted(setSourceOk, playOk)]
             armed == [connecting EXCEPT !.deadlines = @ \cup {block}]
         IN  IF ~setSourceOk
             THEN iosRetryOrFail(armed, n)
             ELSE LET buffering == iosEmitCastProgress(armed, "buffering")
                  IN  IF ~playOk
                      THEN iosRetryOrFail(buffering, n)
                      ELSE iosResolve(iosEmitCastProgress(buffering, "playing"))

iosStartService ==
    /\ ~upnpIsRunning
    /\ upnpIsRunning' = TRUE
    /\ mediaController' = TRUE
    /\ renderers' = {}
    /\ iosHistory' = [iosHistory EXCEPT !.calls = IF @ = "closed" THEN "restarted" ELSE @]
    /\ UNCHANGED <<discoveredDevices, iosCast, deadlines, iosPromise, iosProgress, iosControl>>
    /\ UNCHANGED androidVars
    /\ UNCHANGED exampleVars

\* Variant: closeService keeps the dictionary.
iosCloseService_KeepsDevices ==
    /\ upnpIsRunning' = FALSE
    /\ renderers' = {}
    /\ iosHistory' = [calls |-> "closed", retried |-> FALSE]
    /\ UNCHANGED <<mediaController, discoveredDevices, iosCast, deadlines, iosPromise,
                   iosProgress, iosControl>>
    /\ UNCHANGED androidVars
    /\ UNCHANGED exampleVars

iosCloseService ==
    /\ upnpIsRunning' = FALSE
    /\ renderers' = {}
    /\ discoveredDevices' = {}
    /\ iosHistory' = [calls |-> "closed", retried |-> FALSE]
    /\ UNCHANGED <<mediaController, iosCast, deadlines, iosPromise, iosProgress, iosControl>>
    /\ UNCHANGED androidVars
    /\ UNCHANGED exampleVars

\* The control point hears of a renderer, or loses one.
iosRendererAppears(d) ==
    /\ upnpIsRunning
    /\ d \notin renderers
    /\ renderers' = renderers \cup {d}
    /\ UNCHANGED <<upnpIsRunning, mediaController, discoveredDevices, iosCast, deadlines,
                   iosPromise, iosProgress, iosControl, iosHistory>>
    /\ UNCHANGED androidVars
    /\ UNCHANGED exampleVars

iosRendererDisappears(d) ==
    /\ upnpIsRunning
    /\ d \in renderers
    /\ renderers' = renderers \ {d}
    /\ UNCHANGED <<upnpIsRunning, mediaController, discoveredDevices, iosCast, deadlines,
                   iosPromise, iosProgress, iosControl, iosHistory>>
    /\ UNCHANGED androidVars
    /\ UNCHANGED exampleVars

\* discoverDevices on a running service: the promise resolves with the
\* renderers stored.  On a stopped one it rejects and changes nothing.
iosDiscoverDevices ==
    /\ upnpIsRunning
    /\ discoveredDevices' = renderers
    /\ iosHistory' = [iosHistory EXCEPT !.calls = "none"]
    /\ UNCHANGED <<upnpIsRunning, mediaController, renderers, iosCast, deadlines,
                   iosPromise, iosProgress, iosControl>>
    /\ UNCHANGED androidVars
    /\ UNCHANGED exampleVars

iosCastToDevice(deviceId, url, setSourceOk, playOk) ==
    /\ iosCast.deviceId = "none"
    /\ LET started == [IosCur EXCEPT !.cast.deviceId = deviceId]
       IN  IF ~iosValidateVideoUrl(url)
           THEN IosCommit(iosReject(started, "INVALID_URL"))
           ELSE IosCommit(iosCastToDeviceWithRetry(started, 1, deviceId, setSourceOk, playOk))
    /\ iosHistory' = [iosHistory EXCEPT !.calls = "none"]
    /\ UNCHANGED <<upnpIsRunning, mediaController, renderers, iosControl>>
    /\ UNCHANGED androidVars
    /\ UNCHANGED exampleVars

\* The block dispatched by retryOrFail runs the next attempt.
iosRetryBlock(b, setSourceOk, playOk) ==
    /\ b \in iosCast.scheduled
    /\ IosCommit(iosCastToDeviceWithRetry(
           [IosCur EXCEPT !.cast.scheduled = @ \ {b}],
           b.attemptNumber, iosCast.deviceId, setSourceOk, playOk))
    /\ iosHistory' = [iosHistory EXCEPT !.retried = TRUE]
    /\ UNCHANGED <<upnpIsRunning, mediaController, renderers, iosControl>>
    /\ UNCHANGED androidVars
    /\ UNCHANGED exampleVars

\* The block dispatched after CAST_TIMEOUT runs.
iosDeadlineBlock(b) ==
    /\ b \in deadlines
    /\ LET ran == [IosCur EXCEPT !.deadlines = @ \ {b}]
       IN  IF ~b.operationCompleted
           THEN IosCommit(iosRetryOrFail(ran, b.attemptNumber))
           ELSE IosCommit(ran)
    /\ UNCHANGED <<upnpIsRunning, mediaController, renderers, iosControl, iosHistory>>
    /\ UNCHANGED androidVars
    /\ UNCHANGED exampleVars

\* ok is the result of the mediaController call.
iosControlPlayback(deviceId, action, ok) ==
    /\ LET code == IF ~mediaController THEN "CONTROLLER_NOT_INITIALIZED"
                   ELSE IF deviceId \notin discoveredDevices THEN "DEVICE_NOT_FOUND"
                   ELSE IF action \notin {ActionPlay, ActionPause, ActionStop}
                        THEN "INVALID_ACTION"
                   ELSE IF ~ok THEN "ACTION_FAILED"
                   ELSE "resolved"
       IN  iosControl' = [deviceId |-> deviceId, action |-> action, code |-> code]
    /\ iosHistory' = [iosHistory EXCEPT
                         !.calls = IF @ \in {"restarted", "controlled"}
                                   THEN "controlled" ELSE @]
    /\ UNCHANGED <<upnpIsRunning, mediaController, renderers, discoveredDevices, iosCast,
                   deadlines, iosPromise, iosProgress>>
    /\ UNCHANGED androidVars
    /\ UNCHANGED exampleVars

IosActions == {ActionPlay, ActionStop, ActionUpperPlay}

IosRendererAppears == \E d \in DeviceIds : iosRendererAppears(d)

IosRendererDisappears == \E d \in DeviceIds : iosRendererDisappears(d)

IosCast ==
    \E d \in DeviceIds, u \in Urls, setSourceOk \in BOOLEAN, playOk \in BOOLEAN :
        iosCastToDevice(d, u, setSourceOk, playOk)

IosRetry ==
    \E b \in iosCast.scheduled, setSourceOk \in BOOLEAN, playOk \in BOOLEAN :
        iosRetryBlock(b, setSourceOk, playOk)

IosDeadline == \E b \in deadlines : iosDeadlineBlock(b)

IosControl ==
    \E d \in DeviceIds, a \in IosActions, ok \in BOOLEAN : iosControlPlayback(d, a, ok)

NextIos ==
    \/ iosStartService
    \/ iosCloseService
    \/ IosRendererAppears
    \/ IosRendererDisappears
    \/ iosDiscoverDevices
    \/ IosCast
    \/ IosRetry
    \/ IosDeadline
    \/ IosControl

SpecIos == Init /\ [][NextIos]_vars

TypeOK ==
    /\ control.called \in BOOLEAN
    /\ control.stage \in {"idle", "inflight", "done"}
    /\ control.outcome.kind \in {"pending", "resolved", "rejected"}
    /\ discovery.called \in BOOLEAN
    /\ discovery.devices \subseteq DeviceIds
    /\ binding \in BOOLEAN
    /\ serviceRunning \in BOOLEAN
    /\ upnpService \in BOOLEAN
    /\ registry \subseteq DeviceIds
    /\ called \in BOOLEAN
    /\ DOMAIN attempts \subseteq Instances
    /\ \A i \in DOMAIN attempts :
         /\ attempts[i].stage \in {"scheduled", "setsource", "play", "ended"}
         /\ attempts[i].timeout \in {"none", "pending", "fired", "removed"}
         /\ attempts[i].operationCompleted \in BOOLEAN

(***************************************************************************)
(* Vocabulary of the properties                                            *)
(***************************************************************************)
Occurrences(seq, x) == Cardinality({k \in 1..Len(seq) : seq[k] = x})

RECURSIVE SumProgress(_, _)
SumProgress(S, x) ==
    IF S = {} THEN 0
    ELSE LET i == CHOOSE j \in S : TRUE
         IN  Occurrences(attempts[i].progress, x) + SumProgress(S \ {i}, x)

\* Progress events of stage x emitted so far by the call.
Emitted(x) == SumProgress(DOMAIN attempts, x)

RECURSIVE SumExecuted(_, _)
SumExecuted(S, x) ==
    IF S = {} THEN 0
    ELSE LET i == CHOOSE j \in S : TRUE
         IN  Occurrences(attempts[i].executed, x) + SumExecuted(S \ {i}, x)

\* Dispatcher invocations of action x issued so far by the call.
Invoked(x) == SumExecuted(DOMAIN attempts, x)

Parent(i) == SubSeq(i, 1, Len(i) - 1)

Ancestors(i) == {SubSeq(i, 1, n) : n \in 0..(Len(i) - 1)}

\* The attempt can still issue a dispatcher call or act on a dispatcher
\* response: SetAVTransportURI.success acts unconditionally, the other
\* callbacks act while operationCompleted is unset.
InFlight(i) ==
    \/ attempts[i].stage = "setsource"
    \/ attempts[i].stage = "play" /\ ~attempts[i].operationCompleted

\* In this step a dispatcher callback of attempt i runs.
Answered(i) ==
    /\ i \in DOMAIN attempts
    /\ attempts[i].stage \in {"setsource", "play"}
    /\ attempts'[i].stage # attempts[i].stage

\* In this step attempt i runs the body of castToDeviceWithRetry.
Starts(i) ==
    /\ i \in DOMAIN attempts'
    /\ attempts'[i].stage # "scheduled"
    /\ (i \in DOMAIN attempts => attempts[i].stage = "scheduled")

NoDeadlineFired == \A i \in DOMAIN attempts : attempts[i].timeout # "fired"

UrlRejected(url) ==
    \/ url = NullString
    \/ url = <<>>
    \/ ~(startsWith(url, HttpPrefix) \/ startsWith(url, HttpsPrefix))

(***************************************************************************)
(* C1: once the deadline of an attempt has fired, a dispatcher response of *)
(* that attempt arriving later neither settles the promise, nor emits a    *)
(* progress event, nor schedules a retry.                                  *)
(***************************************************************************)
C1_LateResponseIgnored ==
    [][\A i \in DOMAIN attempts :
         (attempts[i].timeout = "fired" /\ Answered(i))
            => /\ resolves' = resolves
               /\ rejects' = rejects
               /\ attempts'[i].progress = attempts[i].progress
               /\ DOMAIN attempts' = DOMAIN attempts]_vars

(***************************************************************************)
(* C2: the promise of one castToDevice call is settled at most once: never *)
(* resolved twice, never rejected twice, never both resolved and rejected. *)
(***************************************************************************)
C2_SettledAtMostOnce == resolves + rejects <= 1

(***************************************************************************)
(* C3: the retry loop is single-flight: no two attempts of the call are in *)
(* flight together, and an attempt is scheduled only after the previous    *)
(* one has concluded.                                                      *)
(***************************************************************************)
C3_SingleFlight ==
    /\ Cardinality({i \in DOMAIN attempts : InFlight(i)}) <= 1
    /\ \A i \in DOMAIN attempts : i # Root => ~InFlight(Parent(i))

(***************************************************************************)
(* C4: one cast call issues at most 3 set-source invocations.              *)
(***************************************************************************)
C4_AtMostThreeSetSource == Invoked("SetAVTransportURI") <= MAX_RETRIES

(***************************************************************************)
(* C5: a cast with a null or empty URL, or a URL starting with neither     *)
(* http:// nor https://, is rejected in the call itself with INVALID_URL,  *)
(* and starts no attempt: no dispatcher invocation, no progress event, no  *)
(* retry timer, whatever the service and the registry are.                 *)
(***************************************************************************)
C5_InvalidUrlFailsFast ==
    (called /\ UrlRejected(args.videoUrl))
        => /\ outcome.kind = "rejected"
           /\ outcome.code = "INVALID_URL"
           /\ rejects = 1
           /\ resolves = 0
           /\ DOMAIN attempts = {}

\* An invalid URL was rejected while the service was up and the device known.
C5_Witness ==
    /\ called
    /\ UrlRejected(args.videoUrl)
    /\ args.videoUrl = UrlFtp
    /\ outcome.code = "INVALID_URL"
    /\ upnpService
    /\ args.deviceId \in registry
    /\ findService(args.deviceId)

(***************************************************************************)
(* C6 as stated: a cast against an identifier absent from the registry is  *)
(* retried, and fails only after 3 resolution attempts, with               *)
(* MAX_RETRIES_EXCEEDED.                                                   *)
(***************************************************************************)
C6_NotFoundIsRetried ==
    [][\A i \in DOMAIN attempts' :
         (Starts(i) /\ upnpService /\ args'.deviceId \notin registry)
            => IF attemptNumber(i) < MAX_RETRIES
               THEN /\ rejects' = rejects
                    /\ \E c \in Causes : Append(i, c) \in DOMAIN attempts'
               ELSE \E r \in rejections' : r.code = "MAX_RETRIES_EXCEEDED"]_vars

(***************************************************************************)
(* C6 amended: an attempt that finds the identifier absent from the        *)
(* registry rejects the call with DEVICE_NOT_FOUND at once: it schedules   *)
(* no retry, emits no progress event and issues no dispatcher invocation   *)
(* (so a cast whose first attempt misses fails after 1 attempt). An        *)
(* attempt that finds the identifier present proceeds to connecting.       *)
(***************************************************************************)
C6_NotFoundRejectsAtOnce ==
    [][\A i \in DOMAIN attempts' :
         (Starts(i) /\ upnpService /\ attemptNumber(i) <= MAX_RETRIES)
            => IF args'.deviceId \notin registry
               THEN /\ rejects' = rejects + 1
                    /\ \E r \in rejections' : r.code = "DEVICE_NOT_FOUND"
                    /\ (rejects = 0 /\ resolves = 0 => outcome'.code = "DEVICE_NOT_FOUND")
                    /\ DOMAIN attempts' = DOMAIN attempts \cup {i}
                    /\ attempts'[i].stage = "ended"
                    /\ attempts'[i].progress = <<>>
                    /\ attempts'[i].executed = <<>>
               ELSE /\ Len(attempts'[i].progress) >= 1
                    /\ attempts'[i].progress[1] = "connecting"]_vars

\* A retry attempt (after a dispatcher failure) found the device gone and
\* rejected the call with DEVICE_NOT_FOUND.
C6_Witness ==
    /\ outcome.code = "DEVICE_NOT_FOUND"
    /\ <<"failure">> \in DOMAIN attempts
    /\ attempts[<<"failure">>].stage = "ended"
    /\ attempts[<<"failure">>].progress = <<>>
    /\ Cardinality(DOMAIN attempts) = 2

(***************************************************************************)
(* C7: when the third attempt fails, by dispatcher failure or timeout, the *)
(* call is rejected with MAX_RETRIES_EXCEEDED, carrying the last           *)
(* underlying error and the attempt count 3.                               *)
(***************************************************************************)
ThirdAttemptFailed(i) ==
    /\ attemptNumber(i) = MAX_RETRIES
    /\ \/ attempts[i].timeout = "fired"
       \/ /\ attempts[i].stage = "ended"
          /\ attempts[i].operationCompleted
          /\ Occurrences(attempts[i].progress, "playing") = 0

C7_ThirdFailureIsMaxRetriesExceeded ==
    \A i \in DOMAIN attempts :
        ThirdAttemptFailed(i)
            => \E r \in rejections :
                 /\ r.code = "MAX_RETRIES_EXCEEDED"
                 /\ r.attempts = MAX_RETRIES
                 /\ r.error \in {"Operation timed out", "Failed to load media",
                                 "Play command failed"}

(***************************************************************************)
(* C8: if the device stays resolvable, no deadline fires, and set-source   *)
(* fails on attempts 1..k-1 and set-source and play succeed on attempt k,  *)
(* the call resolves with true having emitted exactly k connecting events, *)
(* 1 buffering event and 1 playing event.                                  *)
(***************************************************************************)
FailedOnSetSource(i) ==
    /\ attempts[i].stage = "ended"
    /\ attempts[i].progress = <<"connecting">>
    /\ attempts[i].executed = <<"SetAVTransportURI">>
    /\ attempts[i].operationCompleted

SucceededAfterSetSourceFailures(i) ==
    /\ NoDeadlineFired
    /\ thrown = 0
    /\ attempts[i].stage = "ended"
    /\ Occurrences(attempts[i].progress, "playing") = 1
    /\ \A j \in Ancestors(i) : FailedOnSetSource(j)

C8_SuccessAfterRetriesEvents ==
    \A i \in DOMAIN attempts :
        SucceededAfterSetSourceFailures(i)
            => /\ outcome.kind = "resolved"
               /\ resolves = 1
               /\ rejects = 0
               /\ Emitted("connecting") = attemptNumber(i)
               /\ Emitted("buffering") = 1
               /\ Emitted("playing") = 1

\* Set-source failed on attempts 1 and 2 and the third attempt played.
C8_Witness ==
    \E i \in DOMAIN attempts :
        /\ attemptNumber(i) = MAX_RETRIES
        /\ SucceededAfterSetSourceFailures(i)
        /\ outcome.kind = "resolved"

(***************************************************************************)
(* C9: if on every attempt set-source does not complete within the         *)
(* deadline, the cast ends with MAX_RETRIES_EXCEEDED and no buffering      *)
(* event is emitted for the call.                                          *)
(***************************************************************************)
TimedOutInSetSource(i) ==
    /\ i \in DOMAIN attempts
    /\ attempts[i].timeout = "fired"
    /\ attempts[i].stage = "setsource"

C9_AllSetSourceTimeouts ==
    (/\ TimedOutInSetSource(<<>>)
     /\ TimedOutInSetSource(<<"deadline">>)
     /\ TimedOutInSetSource(<<"deadline", "deadline">>))
        => /\ outcome.kind = "rejected"
           /\ outcome.code = "MAX_RETRIES_EXCEEDED"
           /\ Emitted("buffering") = 0

(***************************************************************************)
(* C10: once the call has emitted playing and resolved with true, no       *)
(* further attempt is started, no backoff timer starts one, and no further *)
(* dispatcher invocation is issued for the call.                           *)
(***************************************************************************)
C10_PlayingEndsRetryLoop ==
    [][resolves >= 1
         => /\ \A i \in DOMAIN attempts' : ~Starts(i)
            /\ \A i \in DOMAIN attempts : attempts'[i].executed = attempts[i].executed]_vars

(***************************************************************************)
(* C11: within one cast call the progress events follow the order          *)
(* connecting, buffering, playing per attempt: a buffering event follows   *)
(* the connecting event of its own attempt with no connecting event of a   *)
(* later attempt in between, and a playing event follows the buffering     *)
(* event of its own attempt.  (A later attempt is one started by the       *)
(* retries of this attempt, so its connecting event comes after this       *)
(* attempt's.)                                                             *)
(***************************************************************************)
\* In this step attempt i emits the progress event x.
Emits(i, x) ==
    /\ i \in DOMAIN attempts'
    /\ attempts'[i].progress =
           Append(IF i \in DOMAIN attempts THEN attempts[i].progress ELSE <<>>, x)

Descendants(i) ==
    {j \in DOMAIN attempts : Len(j) > Len(i) /\ SubSeq(j, 1, Len(i)) = i}

C11_ProgressOrder ==
    [][\A i \in DOMAIN attempts :
         /\ Emits(i, "buffering")
              => /\ attempts[i].progress = <<"connecting">>
                 /\ \A j \in Descendants(i) : attempts[j].progress = <<>>
         /\ Emits(i, "playing")
              => attempts[i].progress = <<"connecting", "buffering">>]_vars

(***************************************************************************)
(* C12: a failed attempt emits no progress event after it failed: once     *)
(* retryOrFail has been entered for attempt n, no buffering or playing     *)
(* event of attempt n is emitted.                                          *)
(***************************************************************************)
\* retryOrFail has been entered for attempt i: by its deadline handler, or
\* by a callback that claimed operationCompleted without reaching playing.
Failed(i) ==
    \/ attempts[i].timeout = "fired"
    \/ /\ attempts[i].stage = "ended"
       /\ attempts[i].operationCompleted
       /\ Occurrences(attempts[i].progress, "playing") = 0
    \/ \E c \in Causes : Append(i, c) \in DOMAIN attempts

C12_FailedAttemptIsSilent ==
    [][\A i \in DOMAIN attempts :
         Failed(i) => attempts'[i].progress = attempts[i].progress]_vars

(***************************************************************************)
(* C13: after attempt n of a cast fails with n < 3, the next attempt is    *)
(* started by a timer of INITIAL_RETRY_DELAY * 2^(n-1) ms (1000 ms after   *)
(* attempt 1, 2000 ms after attempt 2), hence no earlier than that, and    *)
(* its attempt number is n + 1.                                            *)
(***************************************************************************)
\* Every retry was scheduled by the failure of the attempt before it, with
\* that attempt's backoff delay.
BackoffDelayOK ==
    \A i \in DOMAIN attempts :
        i # Root
            => /\ Failed(Parent(i))
               /\ attemptNumber(Parent(i)) < MAX_RETRIES
               /\ attemptNumber(i) = attemptNumber(Parent(i)) + 1
               /\ attempts[i].retryDelay =
                      (IF attemptNumber(Parent(i)) = 1 THEN 1000 ELSE 2000)

\* The only way an attempt other than the first starts is its backoff timer.
StartsByTimer ==
    \A i \in DOMAIN attempts' :
        (Starts(i) /\ i # Root)
            => (i \in DOMAIN attempts /\ attempts[i].stage = "scheduled")

C13_BackoffDelay == []BackoffDelayOK /\ [][StartsByTimer]_vars

\* Attempt 3 has started, 2000 ms after attempt 2 failed, itself started
\* 1000 ms after attempt 1 failed.
C13_Witness ==
    \E i \in DOMAIN attempts :
        /\ attemptNumber(i) = 3
        /\ attempts[i].stage # "scheduled"
        /\ attempts[i].retryDelay = 2000
        /\ attempts[Parent(i)].retryDelay = 1000

(***************************************************************************)
(* C14: if the initial attempt fails, castToDevice retries up to 3 times,  *)
(* waiting 1 s, 2 s and 4 s before the first, second and third retry: so a *)
(* third attempt (the second retry) that fails is followed by a third      *)
(* retry, scheduled 4000 ms later.                                         *)
(***************************************************************************)
C14_ThreeRetries ==
    \A i \in DOMAIN attempts :
        ThirdAttemptFailed(i)
            => \E c \in Causes :
                 /\ Append(i, c) \in DOMAIN attempts
                 /\ attempts[Append(i, c)].retryDelay = 4000

(***************************************************************************)
(* C15: every rejection of a castToDevice call carries one of the          *)
(* documented codes INVALID_URL, DEVICE_NOT_FOUND, TIMEOUT,                *)
(* MAX_RETRIES_EXCEEDED, CAST_FAILED; a cast whose attempts exceed the     *)
(* deadline is rejected with TIMEOUT or MAX_RETRIES_EXCEEDED.              *)
(***************************************************************************)
DocumentedCodes ==
    {"INVALID_URL", "DEVICE_NOT_FOUND", "TIMEOUT", "MAX_RETRIES_EXCEEDED", "CAST_FAILED"}

C15_DocumentedCodes ==
    \A r \in rejections :
        /\ r.code \in DocumentedCodes
        /\ r.error = "Operation timed out"
              => r.code \in {"TIMEOUT", "MAX_RETRIES_EXCEEDED"}

(***************************************************************************)
(* C20: when timers and callbacks are scheduled fairly, every castToDevice *)
(* call eventually settles its promise, whatever the dispatcher does on    *)
(* each invocation: answer with success, with failure, after the deadline, *)
(* or never.                                                               *)
(***************************************************************************)
Settled == outcome.kind # "pending"

C20_EventuallySettled == called ~> Settled

\* A call settled although the dispatcher never answered any of its three
\* set-source invocations.
C20_Witness ==
    /\ called
    /\ Settled
    /\ Cardinality(DOMAIN attempts) = MAX_RETRIES
    /\ \A i \in DOMAIN attempts :
           attempts[i].stage = "setsource" /\ attempts[i].timeout = "fired"

(***************************************************************************)
(* Vocabulary of the control and discovery properties.                     *)
(***************************************************************************)
\* This step is the controlPlayback call.
ControlCalled == ~control.called /\ control'.called

\* This step is the discoverDevices call.
DiscoveryCalled == ~discovery.called /\ discovery'.called

\* This step is the castToDevice call.
CastCalled == ~called /\ called'

ValidActions == {ActionPlay, ActionPause, ActionStop}

\* A non-null action that is not play, pause or stop in any letter case.
UnknownAction(a) == a # NullString /\ toLowerCase(a) \notin ValidActions

ControlRejectedAtOnce(code) ==
    /\ control'.outcome = [kind |-> "rejected", code |-> code]
    /\ control'.executed = <<>>
    /\ control'.rejects = 1
    /\ control'.resolves = 0

(***************************************************************************)
(* C16: a control call whose action is outside {play, pause, stop} fails   *)
(* immediately with INVALID_ACTION and performs no dispatcher call,        *)
(* whether or not the device identifier resolves.                          *)
(***************************************************************************)
C16_InvalidActionRegardless ==
    [][(ControlCalled /\ upnpService /\ control'.action \notin ValidActions)
          => ControlRejectedAtOnce("INVALID_ACTION")]_vars

\* C16, amended: an unknown action never reaches the dispatcher and is
\* rejected at once, with INVALID_ACTION only when the device resolves and
\* has the AVTransport service, otherwise with what the earlier check gives.
C16_InvalidActionAfterLookup ==
    [][(ControlCalled /\ UnknownAction(control'.action))
          => ControlRejectedAtOnce(
                 IF ~upnpService THEN "SERVICE_NOT_STARTED"
                 ELSE IF control'.deviceId \notin registry THEN "DEVICE_NOT_FOUND"
                 ELSE IF ~findService(control'.deviceId) THEN "SERVICE_NOT_AVAILABLE"
                 ELSE "INVALID_ACTION")]_vars

\* 'rewind' was sent to a device that resolves and was refused.
C16_Witness ==
    /\ control.called
    /\ control.action = ActionRewind
    /\ control.deviceId \in registry
    /\ control.outcome = [kind |-> "rejected", code |-> "INVALID_ACTION"]
    /\ control.executed = <<>>

(***************************************************************************)
(* C17: a control call with a valid action resolves the device once and    *)
(* issues exactly one dispatcher invocation, never retried; its promise is *)
(* settled once, with true on success and ACTION_FAILED on failure; when   *)
(* the identifier does not resolve it is rejected with DEVICE_NOT_FOUND    *)
(* and no dispatcher invocation is made.                                   *)
(***************************************************************************)
\* What holds of every control call whatever its path.
ControlSettlesOnce ==
    /\ control.lookups <= 1
    /\ Len(control.executed) <= 1
    /\ control.resolves + control.rejects <= 1
    /\ control.stage = "done" <=> control.resolves + control.rejects = 1
    /\ control.outcome.kind = "resolved"
          => control.outcome.code = "true" /\ Len(control.executed) = 1
    /\ control.outcome.code = "ACTION_FAILED" => Len(control.executed) = 1
    /\ control.outcome.code = "DEVICE_NOT_FOUND" => control.executed = <<>>

\* The outcome of a dispatcher answer.
ControlAnswer ==
    (control.stage = "inflight" /\ control'.stage # "inflight")
        => /\ control'.executed = control.executed
           /\ control'.outcome \in {[kind |-> "resolved", code |-> "true"],
                                    [kind |-> "rejected", code |-> "ACTION_FAILED"]}

C17_ValidActionOneInvocation ==
    /\ []ControlSettlesOnce
    /\ [][ControlAnswer]_vars
    /\ [][(ControlCalled /\ upnpService /\ control'.action \in ValidActions)
            => IF control'.deviceId \in registry
               THEN /\ Len(control'.executed) = 1
                    /\ control'.lookups = 1
                    /\ control'.outcome.kind = "pending"
               ELSE ControlRejectedAtOnce("DEVICE_NOT_FOUND")]_vars

\* C17, amended: the one invocation is made when the device resolves and
\* has the AVTransport service; a device without it is refused with
\* SERVICE_NOT_AVAILABLE and no invocation.
C17_ValidActionOneInvocationIfCapable ==
    /\ []ControlSettlesOnce
    /\ [][ControlAnswer]_vars
    /\ [][(ControlCalled /\ upnpService /\ control'.action \in ValidActions)
            => IF control'.deviceId \notin registry
               THEN ControlRejectedAtOnce("DEVICE_NOT_FOUND")
               ELSE IF ~findService(control'.deviceId)
               THEN ControlRejectedAtOnce("SERVICE_NOT_AVAILABLE")
               ELSE /\ Len(control'.executed) = 1
                    /\ control'.lookups = 1
                    /\ control'.outcome.kind = "pending"]_vars

\* A pause that the device refused: one invocation, one rejection.
C17_Witness ==
    /\ control.called
    /\ control.action = ActionPause
    /\ control.executed = <<"Pause">>
    /\ control.outcome = [kind |-> "rejected", code |-> "ACTION_FAILED"]
    /\ control.rejects = 1

(***************************************************************************)
(* C18: discovery, cast with a valid URL, and control, when invoked        *)
(* outside the startService/closeService bracket (before the service is    *)
(* connected, or any time after closeService), each fail with              *)
(* SERVICE_NOT_STARTED and make no dispatcher invocation.                  *)
(***************************************************************************)
C18_OutsideBracketNotStarted ==
    [][~serviceRunning
         => /\ DiscoveryCalled
                => (discovery'.kind = "rejected" /\ discovery'.code = "SERVICE_NOT_STARTED")
            /\ ControlCalled => ControlRejectedAtOnce("SERVICE_NOT_STARTED")
            /\ (CastCalled /\ validateVideoUrl(args'.videoUrl))
                => /\ outcome'.code = "SERVICE_NOT_STARTED"
                   /\ \A i \in DOMAIN attempts' : attempts'[i].executed = <<>>]_vars

(***************************************************************************)
(* C27: a cast to a device that resolves but has no AVTransport service is *)
(* rejected with SERVICE_NOT_AVAILABLE on the attempt that finds it so,    *)
(* with no retry, no deadline timer armed and no dispatcher invocation;    *)
(* the attempt has emitted one connecting event and nothing else.          *)
(***************************************************************************)
\* The attempts that found the device without the AVTransport service.
FoundIncapable(i) ==
    /\ attempts[i].stage = "ended"
    /\ attempts[i].timeout = "none"
    /\ attempts[i].progress # <<>>

C27_IncapableDeviceFailsOnce ==
    /\ \A r \in rejections :
         r.code = "SERVICE_NOT_AVAILABLE" => \E i \in DOMAIN attempts : FoundIncapable(i)
    /\ \A i \in DOMAIN attempts :
         FoundIncapable(i)
            => /\ rejects >= 1
               /\ \E r \in rejections : r.code = "SERVICE_NOT_AVAILABLE"
               /\ outcome.kind # "pending"
               /\ attempts[i].progress = <<"connecting">>
               /\ attempts[i].executed = <<>>
               /\ ~attempts[i].operationCompleted
               /\ \A c \in Causes : Append(i, c) \notin DOMAIN attempts

\* The cast to the device without AVTransport was rejected on its first
\* attempt.
C27_Witness ==
    /\ called
    /\ args.deviceId = "nas"
    /\ outcome.kind = "rejected"
    /\ outcome.code = "SERVICE_NOT_AVAILABLE"
    /\ DOMAIN attempts = {Root}
    /\ attempts[Root].progress = <<"connecting">>

(***************************************************************************)
(* C28: within an attempt the dispatcher calls are sequenced: set-source   *)
(* is invoked at most once and only after the attempt's connecting event;  *)
(* play is invoked at most once, only on the attempt's set-source success  *)
(* and after its buffering event, never for an attempt whose set-source    *)
(* failed.                                                                 *)
(***************************************************************************)
DispatchSequenced ==
    \A i \in DOMAIN attempts :
        /\ attempts[i].executed \in
               {<<>>, <<"SetAVTransportURI">>, <<"SetAVTransportURI", "Play">>}
        /\ attempts[i].executed # <<>>
              => (attempts[i].progress # <<>> /\ attempts[i].progress[1] = "connecting")
        /\ Occurrences(attempts[i].executed, "Play") = 1
              => /\ Len(attempts[i].progress) >= 2
                 /\ attempts[i].progress[2] = "buffering"
                 /\ attempts[i].stage \in {"play", "ended"}
        /\ attempts[i].stage = "setsource" => attempts[i].executed = <<"SetAVTransportURI">>

\* Set-source is dispatched by the step that starts the attempt, Play only by
\* the set-source success of the same attempt; a set-source that answers
\* otherwise leaves the attempt without Play for good.
PlayOnlyOnSetSourceSuccess ==
    \A i \in DOMAIN attempts :
        /\ attempts'[i].executed # attempts[i].executed
              => \/ /\ attempts[i].stage = "scheduled"
                    /\ attempts'[i].executed = <<"SetAVTransportURI">>
                    /\ attempts'[i].progress = <<"connecting">>
                 \/ /\ attempts[i].stage = "setsource"
                    /\ attempts'[i].stage = "play"
                    /\ attempts'[i].executed = Append(attempts[i].executed, "Play")
                    /\ attempts'[i].progress = Append(attempts[i].progress, "buffering")
        /\ (attempts[i].stage = "ended" /\ attempts[i].executed = <<"SetAVTransportURI">>)
              => attempts'[i].executed = attempts[i].executed

C28_DispatchSequenced == []DispatchSequenced /\ [][PlayOnlyOnSetSourceSuccess]_vars

\* Set-source of attempt 2 failed (no Play for it) after attempt 1 had gone
\* through set-source and Play.
C28_Witness ==
    \E i \in DOMAIN attempts :
        /\ attemptNumber(i) = 2
        /\ attempts[i].stage = "ended"
        /\ attempts[i].executed = <<"SetAVTransportURI">>
        /\ attempts[Parent(i)].executed = <<"SetAVTransportURI", "Play">>

(***************************************************************************)
(* C29: each attempt that reaches the dispatch arms one deadline timer,    *)
(* before set-source is dispatched, and does not arm it again when play is *)
(* dispatched; when the deadline fires on an unfinished attempt n it is    *)
(* handled like a dispatcher failure: a retry if n < 3, the terminal       *)
(* failure if n = 3.                                                       *)
(***************************************************************************)
\* Set-source is never in flight without the timer having been armed.
DeadlineArmed ==
    \A i \in DOMAIN attempts :
        attempts[i].executed # <<>> => attempts[i].timeout # "none"

\* A timer that has fired or was removed is not armed again, and a timer is
\* armed only by the step that starts the attempt.
ArmedOnce ==
    \A i \in DOMAIN attempts :
        /\ attempts[i].timeout \in {"fired", "removed"}
              => attempts'[i].timeout = attempts[i].timeout
        /\ (attempts[i].timeout = "none" /\ attempts'[i].timeout # "none")
              => (attempts[i].stage = "scheduled" /\ attempts'[i].timeout = "pending")

\* The deadline of attempt i fires in this step.
Fires(i) == attempts[i].timeout = "pending" /\ attempts'[i].timeout = "fired"

DeadlineIsFailure ==
    \A i \in DOMAIN attempts :
        (Fires(i) /\ ~attempts[i].operationCompleted)
            => IF attemptNumber(i) < MAX_RETRIES
               THEN /\ \E c \in Causes :
                         /\ Append(i, c) \in DOMAIN attempts' \ DOMAIN attempts
                         /\ attempts'[Append(i, c)].stage = "scheduled"
                         /\ attempts'[Append(i, c)].retryDelay =
                                INITIAL_RETRY_DELAY * Pow2(attemptNumber(i) - 1)
                    /\ rejects' = rejects
               ELSE /\ rejects' = rejects + 1
                    /\ DOMAIN attempts' = DOMAIN attempts
                    /\ \E r \in rejections' :
                         r.code = "CAST_FAILED" /\ r.error = "Operation timed out"

C29_OneDeadlinePerAttempt ==
    []DeadlineArmed /\ [][ArmedOnce]_vars /\ [][DeadlineIsFailure]_vars

\* The deadline of attempt 3 fired while its Play was unanswered.
C29_Witness ==
    \E i \in DOMAIN attempts :
        /\ attemptNumber(i) = MAX_RETRIES
        /\ attempts[i].timeout = "fired"
        /\ attempts[i].stage = "play"
        /\ outcome.code = "CAST_FAILED"

(***************************************************************************)
(* C21: discoverDevices returns exactly the devices the registry knows at  *)
(* the time of the call that expose the AVTransport service: each of them  *)
(* is in the result and no device without the service is.                  *)
(***************************************************************************)
C21_DiscoverReturnsRenderers ==
    [][(DiscoveryCalled /\ upnpService)
          => /\ discovery'.kind = "resolved"
             /\ discovery'.devices \subseteq registry
             /\ "nas" \notin discovery'.devices
             /\ "tv" \in registry => "tv" \in discovery'.devices
             /\ \A d \in DeviceIds :
                  d \in discovery'.devices <=> (d \in registry /\ findService(d))]_vars

\* With a renderer and a device without AVTransport both known, discovery
\* returned the renderer alone.
C21_Witness ==
    /\ discovery.called
    /\ discovery.kind = "resolved"
    /\ registry = {"tv", "nas"}
    /\ discovery.devices = {"tv"}

(***************************************************************************)
(* C30: on Android the accepted control actions are exactly the literal    *)
(* values 'play', 'pause' and 'stop': any other string, case variants such *)
(* as 'PLAY' or 'Pause' included, is rejected with INVALID_ACTION and      *)
(* causes no dispatcher invocation.                                        *)
(***************************************************************************)
\* The call reaches the switch on the action: the service is started and the
\* device resolves and has the AVTransport service.
ControlReachesSwitch ==
    /\ ControlCalled
    /\ upnpService
    /\ control'.deviceId \in registry
    /\ findService(control'.deviceId)
    /\ control'.action # NullString

C30_OnlyLiteralActions ==
    [][(ControlReachesSwitch /\ control'.action \notin ValidActions)
          => ControlRejectedAtOnce("INVALID_ACTION")]_vars

ControlDispatched(invocation) ==
    /\ control'.executed = <<invocation>>
    /\ control'.outcome.kind = "pending"
    /\ control'.rejects = 0

\* C30, amended: the action is compared in lower case, so 'PLAY' dispatches
\* Play and 'Pause' dispatches Pause; a string that is none of the three in
\* any letter case is rejected with INVALID_ACTION and dispatches nothing.
C30_ActionsIgnoreCase ==
    [][ControlReachesSwitch
          => CASE control'.action \in {ActionPlay, ActionUpperPlay} -> ControlDispatched("Play")
               [] control'.action \in {ActionPause, ActionCapitalPause} -> ControlDispatched("Pause")
               [] control'.action = ActionStop -> ControlDispatched("Stop")
               [] OTHER -> ControlRejectedAtOnce("INVALID_ACTION")]_vars

\* 'PLAY' was dispatched as Play.
C30_Witness ==
    /\ control.called
    /\ control.action = ActionUpperPlay
    /\ control.executed = <<"Play">>

(***************************************************************************)
(* Vocabulary of the helper-function properties.                           *)
(***************************************************************************)
Encoded == job.op = "metadata" /\ result # NoResult

Filtered == job.op = "filter" /\ result # NoResult

Entities == {Amp, Lt, Gt, Quot, Apos}

\* The character an entity stands for.
EntityChar(e) ==
    CASE e = Amp -> "&" [] e = Lt -> "<" [] e = Gt -> ">" [] e = Quot -> "\"" [] e = Apos -> "'"

EntityAt(text, k) ==
    {e \in Entities : k + Len(e) - 1 <= Len(text) /\ SubSeq(text, k, k + Len(e) - 1) = e}

\* What an XML reader makes of an escaped text.
RECURSIVE Unescape(_)
Unescape(text) ==
    IF text = <<>> THEN <<>>
    ELSE IF EntityAt(text, 1) # {}
    THEN LET e == CHOOSE x \in EntityAt(text, 1) : TRUE
         IN  <<EntityChar(e)>> \o Unescape(SubSeq(text, Len(e) + 1, Len(text)))
    ELSE <<Head(text)>> \o Unescape(Tail(text))

\* No markup character is left raw and every ampersand opens an entity.
WellEscaped(text) ==
    \A k \in 1..Len(text) :
        /\ text[k] \notin {"<", ">", "\"", "'"}
        /\ text[k] = "&" => EntityAt(text, k) # {}

(***************************************************************************)
(* C22: for every URL and title the metadata document embeds the title and *)
(* the URL with the five characters & < > " ' escaped: no raw < > " or '    *)
(* of the input survives, every & of the input becomes &amp;, and the      *)
(* escaped text still reads as the input.                                  *)
(***************************************************************************)
C22_MetadataEscaped ==
    Encoded
        => /\ WellEscaped(result.dcTitle)
           /\ WellEscaped(result.res)
           /\ Unescape(result.res) = job.url
           /\ Unescape(result.dcTitle) = safeTitle(defaultTitle(job.title))
           /\ Occurrences(result.res, "&") = Len(SelectSeq(job.url, LAMBDA c : c \in {"&", "<", ">", "\"", "'"}))

\* A title made of an ampersand and an apostrophe was embedded.
C22_Witness ==
    /\ Encoded
    /\ job.title = <<"&", "'">>
    /\ result.dcTitle = Amp \o Apos

(***************************************************************************)
(* C23: the content descriptor follows the priority rule on the raw URL:   *)
(* adaptive streaming when the URL ends with .m3u8 or contains .m3u8?,     *)
(* otherwise MP4 when the URL ends with .mp4, otherwise the generic video  *)
(* descriptor; so a.mp4?t=x gets the generic one and a.m3u8?x=.mp4 the     *)
(* adaptive-streaming one.                                                 *)
(***************************************************************************)
HlsInfo == "http-get:*:application/vnd.apple.mpegurl:*"
Mp4Info == "http-get:*:video/mp4:*"
AnyVideoInfo == "http-get:*:video/*:*"

\* The URL without its scheme.
UrlTail(url) ==
    IF startsWith(url, HttpsPrefix) THEN SubSeq(url, Len(HttpsPrefix) + 1, Len(url))
    ELSE SubSeq(url, Len(HttpPrefix) + 1, Len(url))

C23_DescriptorPriority ==
    Encoded
        => LET tail == UrlTail(job.url)
           IN  result.protocolInfo =
                 CASE tail = <<"a", ".", "m", "p", "4">> -> Mp4Info
                   [] tail = <<"a", ".", "m", "p", "4", "?", "t", "=", "x">> -> AnyVideoInfo
                   [] tail = <<"a", ".", "m", "3", "u", "8">> -> HlsInfo
                   [] tail = <<"a", ".", "m", "3", "u", "8", "?", "x", "=", ".", "m", "p", "4">>
                        -> HlsInfo
                   [] tail = <<"a", ".", "m", "3", "u", "8", "/", "b", ".", "m", "p", "4">>
                        -> Mp4Info
                   [] OTHER -> AnyVideoInfo

\* The URL ending in .m3u8?x=.mp4 got the adaptive-streaming descriptor.
C23_Witness ==
    /\ Encoded
    /\ UrlTail(job.url) = <<"a", ".", "m", "3", "u", "8", "?", "x", "=", ".", "m", "p", "4">>
    /\ result.protocolInfo = HlsInfo

(***************************************************************************)
(* C24: the title "Video" is substituted whenever the given title is       *)
(* empty: a cast with an empty-string title, as with an omitted or null    *)
(* title, sends a document whose title element is Video.                   *)
(***************************************************************************)
C24_EmptyTitleIsVideo ==
    (Encoded /\ job.title \in {<<>>, NullString, Undefined})
        => result.dcTitle = Video

\* C24, amended: Video is substituted for an omitted or null title; an
\* empty-string title is sent as an empty title element.
C24_MissingTitleIsVideo ==
    Encoded
        => /\ job.title \in {NullString, Undefined} => result.dcTitle = Video
           /\ job.title = <<>> => result.dcTitle = <<>>
           /\ job.title = <<"T">> => result.dcTitle = <<"T">>

\* A null title was sent as Video.
C24_Witness ==
    /\ Encoded
    /\ job.title = NullString
    /\ result.dcTitle = Video

(***************************************************************************)
(* C26: filterDevices returns, in the original order, exactly the devices  *)
(* that satisfy every criterion present in the filter: the manufacturer    *)
(* contains filter.manufacturer and the name contains filter.name, both    *)
(* without regard to letter case; an absent or empty criterion excludes    *)
(* nothing.                                                                *)
(***************************************************************************)
SameLetter(a, b) ==
    \/ a = b
    \/ \E u \in 1..Len(UpperCase) : {a, b} = {UpperCase[u], LowerCase[u]}

ContainsIgnoringCase(str, part) ==
    \E k \in 0..(Len(str) - Len(part)) :
        \A j \in 1..Len(part) : SameLetter(str[k + j], part[j])

Present(criterion) == criterion \notin {Undefined, <<>>}

Satisfies(device, filter) ==
    /\ Present(filter.manufacturer)
          => ContainsIgnoringCase(device.manufacturer, filter.manufacturer)
    /\ Present(filter.name) => ContainsIgnoringCase(device.name, filter.name)

\* The positions of the devices kept, in increasing order.
RECURSIVE KeptInOrder(_, _, _)
KeptInOrder(devices, filter, k) ==
    IF k > Len(devices) THEN <<>>
    ELSE (IF Satisfies(devices[k], filter) THEN <<devices[k]>> ELSE <<>>)
             \o KeptInOrder(devices, filter, k + 1)

C26_FilterDevices ==
    Filtered => result.devices = KeptInOrder(job.devices, job.filter, 1)

\* Both criteria were given in another letter case than the devices' and
\* kept the first of two devices.
C26_Witness ==
    /\ Filtered
    /\ job.filter = [manufacturer |-> <<"s", "a">>, name |-> <<"t", "v">>]
    /\ Len(job.devices) = 2
    /\ job.devices[2].manufacturer = Samsung
    /\ result.devices = <<[name |-> <<"T", "V">>, manufacturer |-> Samsung]>>

(***************************************************************************)
(* C25: every add notification of the registry for a remote device is      *)
(* forwarded as a device-found event carrying the normalized device        *)
(* fields, and every remove notification as a device-lost event carrying   *)
(* the identifier.                                                         *)
(***************************************************************************)
\* The registry notifies the listener of device d in this step.
AddNotified(d) == d \notin registry /\ d \in registry'

RemoveNotified(d) == d \in registry /\ d \notin registry' /\ serviceRunning'

FoundEvent(d) ==
    [name |-> "dlna-device-found",
     params |-> [id |-> d,
                 name |-> Details[d].friendlyName,
                 manufacturer |-> IF d = "tv" THEN "Samsung" ELSE "Unknown",
                 modelName |-> "Unknown",
                 type |-> Details[d].type]]

LostEvent(d) == [name |-> "dlna-device-lost", params |-> [id |-> d]]

C25_EveryNotificationForwarded ==
    [][\A d \in DeviceIds :
         /\ AddNotified(d) => deviceEvent' = FoundEvent(d)
         /\ RemoveNotified(d) => deviceEvent' = LostEvent(d)]_vars

\* C25, amended: the add notification is forwarded for the devices that have
\* the AVTransport service and dropped for the others; every remove
\* notification is forwarded.
C25_RendererNotificationsForwarded ==
    [][\A d \in DeviceIds :
         /\ (AddNotified(d) /\ d = "tv") => deviceEvent' = FoundEvent(d)
         /\ (AddNotified(d) /\ d = "nas") => deviceEvent' = deviceEvent
         /\ RemoveNotified(d) => deviceEvent' = LostEvent(d)]_vars

\* The renderer was announced, then the device without AVTransport was added
\* without an event and removed with one.
C25_Witness ==
    /\ registry = {"tv"}
    /\ deviceEvent = LostEvent("nas")

(***************************************************************************)
(* C31: cast and control only read the device registry: no step of a       *)
(* castToDevice or controlPlayback call, on any path (success, failure,    *)
(* timeout, retry), adds, removes or modifies a registry entry.            *)
(***************************************************************************)
\* A step of the cast call or of the control call.
CastOrControlStep ==
    \/ callVars' # callVars
    \/ castVars' # castVars
    \/ control' # control

C34_AtMostOnePlaying == Emitted("playing") <= 1

(***************************************************************************)
(* C35: once an attempt has concluded before its deadline (by play         *)
(* success, by a dispatcher failure, or by an exception caught after the   *)
(* deadline timer was armed), the deadline timer of that attempt never     *)
(* afterwards triggers a retry or a rejection.                             *)
(***************************************************************************)
\* The attempt has no request in flight and its deadline has not fired.
ConcludedBeforeDeadline(i) ==
    /\ attempts[i].stage = "ended"
    /\ attempts[i].timeout \in {"pending", "removed"}

C35_ConcludedAttemptDeadlineInert ==
    [][\A i \in DOMAIN attempts :
         (ConcludedBeforeDeadline(i) /\ attempts'[i].timeout = "fired")
            => /\ DOMAIN attempts' = DOMAIN attempts
               /\ rejects' = rejects]_vars

(***************************************************************************)
(* C36: if the service becomes unavailable (upnpService is null) during    *)
(* the backoff between two attempts, the next attempt rejects the call     *)
(* with SERVICE_NOT_STARTED without using the remaining retry budget,      *)
(* without emitting a progress event and without any dispatcher            *)
(* invocation.                                                             *)
(***************************************************************************)
\* The backoff timer of attempt i runs in this step.
StartsAfterBackoff(i) ==
    /\ attemptNumber(i) > 1
    /\ attempts[i].stage = "scheduled"
    /\ attempts'[i].stage # "scheduled"

C36_ServiceLostDuringBackoff ==
    [][\A i \in DOMAIN attempts :
         (StartsAfterBackoff(i) /\ ~upnpService)
            => /\ attempts'[i].stage = "ended"
               /\ attempts'[i].progress = <<>>
               /\ attempts'[i].executed = <<>>
               /\ attempts'[i].timeout = "none"
               /\ DOMAIN attempts' = DOMAIN attempts
               /\ rejects' = rejects + 1
               /\ \E r \in rejections' : r.code = "SERVICE_NOT_STARTED"
               /\ outcome.kind = "pending" => outcome'.code = "SERVICE_NOT_STARTED"]_vars

\* The second attempt found the service gone and rejected the call.
C36_Witness ==
    /\ outcome.code = "SERVICE_NOT_STARTED"
    /\ ~upnpService
    /\ \E i \in DOMAIN attempts :
         /\ attemptNumber(i) = 2
         /\ attempts[i].stage = "ended"
         /\ attempts[i].progress = <<>>
         /\ attempts[i].executed = <<>>

(***************************************************************************)
(* C37: a device-lost event for an identifier is emitted only if a         *)
(* device-found event for the same identifier was emitted earlier and not  *)
(* yet followed by a device-lost event; in particular no device-lost is    *)
(* emitted for a device that lacks the AVTransport service.                *)
(***************************************************************************)
\* A device-found event for d is outstanding exactly while d is registered
\* and has the AVTransport service: remoteDeviceAdded announced it then, and
\* no device-lost event has followed.
FoundOutstanding(d) == d \in registry /\ isMediaRenderer(d)

C37_LostOnlyAfterFound ==
    [][\A d \in DeviceIds :
         (RemoveNotified(d) /\ deviceEvent' = LostEvent(d))
            => FoundOutstanding(d)]_vars

(***************************************************************************)
(* C32: in the example app, whenever a device-lost event arrives for the   *)
(* identifier of the currently selected device, the selection is cleared   *)
(* (selectedDevice becomes null), for every order of selecting a device    *)
(* and receiving found and lost events after mount.                        *)
(***************************************************************************)
C32_LostClearsSelection ==
    \A id \in ExampleIds : lostId = id => selectedDevice.id # id

(***************************************************************************)
(* C38: in the iOS module the deadline handler of an attempt never         *)
(* triggers a retry or a rejection: set-source and play are invoked        *)
(* synchronously on the main queue, where the deadline block is also       *)
(* scheduled, so operationCompleted is YES by the time the block runs, on  *)
(* every path through castToDeviceWithRetry.                               *)
(***************************************************************************)
\* A deadline block runs in this step.
DeadlineBlockRuns == deadlines' # deadlines /\ deadlines' \subseteq deadlines

ControlAfterRestart ==
    /\ iosHistory.calls \in {"restarted", "controlled"}
    /\ iosHistory'.calls = "controlled"

C39_ControlFailsAfterRestart ==
    [][ControlAfterRestart => iosControl'.code = "DEVICE_NOT_FOUND"]_vars

\* C39, amended: the retry attempts of a castToDevice called before the
\* closeService count as casts too: controlPlayback fails with
\* DEVICE_NOT_FOUND after closeService then startService if no
\* discoverDevices, castToDevice or retry attempt of a cast has run since.
C39_ControlFailsAfterRestartNoRetry ==
    [][(ControlAfterRestart /\ ~iosHistory.retried)
          => iosControl'.code = "DEVICE_NOT_FOUND"]_vars

\* After the restart the control point knows the renderer again, and
\* controlPlayback for it has failed.
C39_Witness ==
    /\ iosHistory = [calls |-> "controlled", retried |-> FALSE]
    /\ upnpIsRunning
    /\ iosControl.deviceId \in renderers
    /\ iosControl.code = "DEVICE_NOT_FOUND"
====
